---------------------------- MODULE Spec2Model ----------------------------
(***************************************************************************)
(* A model of lazychess' engine subsystem: the UCI engine client           *)
(* (src/engine/uci.rs), the analysis aggregator (src/ui/analysis.rs) and   *)
(* the session controller (src/app.rs), with the game state it sends       *)
(* (src/chess/game.rs).                                                    *)
(*                                                                         *)
(* The specifications share the variables:                                 *)
(*   SpecNew      Engine::new (spawn, handshake, clean-up) followed by the *)
(*                client's operations, against an arbitrary subprocess;    *)
(*   SpecClient   a constructed client driven by an arbitrary caller;      *)
(*   SpecReader   the reader thread on lines of every kind;                *)
(*   SpecInfo     the decoding of one info line;                           *)
(*   SpecPosition set_position with and without a FEN and moves;           *)
(*   SpecAgg      the aggregator under update and clear calls;             *)
(*   SpecClear    clear on aggregators of every kind;                      *)
(*   SpecGame     the Game under its own operations;                       *)
(*   Spec         the host (App) driving the client against a UCI engine;  *)
(*   SpecKeys     the host under every key that changes the position;      *)
(*   SpecHost     the host from App::new on, against any executable.       *)
(***************************************************************************)
EXTENDS Integers, Sequences, FiniteSets, TLC

VARIABLES
    pc,            \* where the control thread is
    new_result,    \* what Engine::new returned ("pending" until it has)
    kind,          \* the executable behind the path: "missing", "silent", "uci"
    proc,          \* the subprocess: "none", "running", "exited"
    waited,        \* process.wait() has returned for the subprocess
    written,       \* the command lines written to the subprocess' stdin, in order
    consumed,      \* how many of them the subprocess has read
    search,        \* the go command (index in written) the subprocess is searching, or 0
    finished,      \* the go commands whose bestmove the subprocess has emitted
    stdout,        \* the lines the subprocess has written and the reader has not read
    reader,        \* the reader thread: "none", "running", "done"
    queue,         \* the mpsc channel between the reader and the control thread
    is_analyzing,  \* Engine.is_analyzing
    name,          \* Engine.name
    author,        \* Engine.author
    clock,         \* milliseconds elapsed in wait_for_ready
    ret,           \* what the last client operation returned
    emitted,       \* history: every line the subprocess has written
    received,      \* history: every event the control thread has taken from the queue
    last_op,       \* history: the latest of a go call, a stop call, a BestMove taken
    write_failed,  \* history: some command write has failed
    attached,      \* App.engine is Some
    analysis,      \* App.analysis (AnalysisState)
    game,          \* App.game, as the position it stands at
    last_fen,      \* App.last_fen
    depth,         \* App.config.engine.depth
    host_op        \* history: the host operation that ran last, and what it saw

vars == <<pc, new_result, kind, proc, waited, written, consumed, search, finished,
          stdout, reader, queue, is_analyzing, name, author, clock, ret,
          emitted, received, last_op, write_failed,
          attached, analysis, game, last_fen, depth, host_op>>

(***************************************************************************)
(* Option<T>: None is the empty sequence, Some(x) the one-element sequence. *)
(***************************************************************************)
None == <<>>

Some(x) == <<x>>

IsSome(o) == o # <<>>

Last(s) == s[Len(s)]

(***************************************************************************)
(* Bounds of the model.                                                    *)
(***************************************************************************)
MaxOutNew == 3

MaxWrittenNew == 3

MaxOutClient == 2

MaxWrittenClient == 3

MaxOut == 3

MaxRestarts == 2

\* SpecAgg: update calls between two clear calls, minus one
MaxUpdates == 2

\* SpecInfo: the attributes of an info line
MaxAttrs == 3

\* SpecReader: the lines the subprocess writes after uciok
MaxOutReader == 2

\* SpecPosition: the longest move list, the commands written after uci
MaxMoves == 2

MaxWrittenPos == 2

(***************************************************************************)
(* The handshake's timing (uci.rs: wait_for_ready).                        *)
(***************************************************************************)
HandshakeTimeoutMs == 5000

PollMs == 100

(***************************************************************************)
(* AnalysisInfo and its Default.                                           *)
(***************************************************************************)
DefaultInfo ==
    [depth |-> None, seldepth |-> None, score_cp |-> None, score_mate |-> None,
     nodes |-> None, nps |-> None, time_ms |-> None, multipv |-> None,
     pv |-> <<>>, hashfull |-> None]

(***************************************************************************)
(* parse_info: the attributes of an info message folded, in order, into an  *)
(* AnalysisInfo; an attribute of another kind is skipped.                   *)
(***************************************************************************)
ApplyAttr(info, attr) ==
    CASE attr.a = "Depth"    -> [info EXCEPT !.depth = Some(attr.v)]
      [] attr.a = "SelDepth" -> [info EXCEPT !.seldepth = Some(attr.v)]
      [] attr.a = "Score"    -> [info EXCEPT !.score_cp = attr.cp, !.score_mate = attr.mate]
      [] attr.a = "Nodes"    -> [info EXCEPT !.nodes = Some(attr.v)]
      [] attr.a = "Nps"      -> [info EXCEPT !.nps = Some(attr.v)]
      [] attr.a = "Time"     -> [info EXCEPT !.time_ms = Some(attr.v)]
      [] attr.a = "MultiPv"  -> [info EXCEPT !.multipv = Some(attr.v)]
      [] attr.a = "Pv"       -> [info EXCEPT !.pv = attr.moves]
      [] attr.a = "HashFull" -> [info EXCEPT !.hashfull = Some(attr.v)]
      [] OTHER               -> info

RECURSIVE FoldAttrs(_, _)
FoldAttrs(info, attrs) ==
    IF attrs = <<>> THEN info
    ELSE FoldAttrs(ApplyAttr(info, Head(attrs)), Tail(attrs))

\* a parse_info that gives up the line at the first attribute it has no
\* arm for
RECURSIVE FoldKnownAttrs(_, _)
FoldKnownAttrs(info, attrs) ==
    IF attrs = <<>> THEN info
    ELSE IF ApplyAttr(info, Head(attrs)) = info THEN info
    ELSE FoldKnownAttrs(ApplyAttr(info, Head(attrs)), Tail(attrs))

parse_info_stops(attrs) == FoldKnownAttrs(DefaultInfo, attrs)

parse_info(attrs) == FoldAttrs(DefaultInfo, attrs)

(***************************************************************************)
(* The lines a subprocess writes.  A line is a record whose text field is   *)
(* its first word; ReadError stands for a line the reader cannot read (an   *)
(* I/O error, bytes that are not UTF-8).                                    *)
(***************************************************************************)
BlankLine == [text |-> ""]

NoiseLine == [text |-> "garbage"]

ReadError == [text |-> "<read error>"]

UciOkLine == [text |-> "uciok"]

ReadyOkLine == [text |-> "readyok"]

IdNameLine == [text |-> "id", key |-> "name", val |-> "X"]

IdAuthorLine == [text |-> "id", key |-> "author", val |-> "Y"]

BestMoveLine == [text |-> "bestmove", best_move |-> "e2e4", ponder |-> None]

InfoPvLine ==
    [text |-> "info",
     attrs |-> <<[a |-> "Depth", v |-> 12], [a |-> "Nodes", v |-> 1000],
                 [a |-> "Pv", moves |-> <<"e2e4", "e7e5">>]>>]

InfoStatLine == [text |-> "info", attrs |-> <<[a |-> "Nodes", v |-> 2000]>>]

BestMovePonderLine ==
    [text |-> "bestmove", best_move |-> "e2e4", ponder |-> Some("e7e5")]

\* `option name Hash type spin default 16 min 1 max 1024`
OptionLine ==
    [text |-> "option", name |-> "Hash", type |-> "spin",
     rest |-> <<"default", "16", "min", "1", "max", "1024">>]

\* `copyprotection ok`: a message of the protocol that read_output has no
\* arm for
CopyProtectionLine == [text |-> "copyprotection", state |-> "ok"]

(***************************************************************************)
(* vampirc_uci::parse_one, by what read_output relies on: the message kind  *)
(* and its fields; text that is no UCI message is UciMessage::Unknown.      *)
(***************************************************************************)
parse_one(line) ==
    CASE line.text = "uciok"    -> [m |-> "UciOk"]
      [] line.text = "readyok"  -> [m |-> "ReadyOk"]
      [] line.text = "id"       ->
            [m |-> "Id",
             name   |-> IF line.key = "name" THEN Some(line.val) ELSE None,
             author |-> IF line.key = "author" THEN Some(line.val) ELSE None]
      [] line.text = "info"     -> [m |-> "Info", attrs |-> line.attrs]
      [] line.text = "bestmove" ->
            [m |-> "BestMove", best_move |-> line.best_move, ponder |-> line.ponder]
      [] line.text = "option"   ->
            [m |-> "Option", name |-> line.name, type |-> line.type, rest |-> line.rest]
      [] line.text = "copyprotection" -> [m |-> "CopyProtection", state |-> line.state]
      [] OTHER                  -> [m |-> "Unknown"]

(***************************************************************************)
(* read_output's match: the events one message yields (one or none).        *)
(***************************************************************************)
\* a match without the arm for ReadyOk
EventsOfMessage_no_readyok(msg) ==
    CASE msg.m = "Id"       -> <<[e |-> "Id", name |-> msg.name, author |-> msg.author]>>
      [] msg.m = "UciOk"    -> <<[e |-> "Ready"]>>
      [] msg.m = "Info"     -> <<[e |-> "Info", info |-> parse_info(msg.attrs)]>>
      [] msg.m = "BestMove" ->
            <<[e |-> "BestMove", best_move |-> msg.best_move, ponder |-> msg.ponder]>>
      [] msg.m = "Option"   -> <<[e |-> "Option", name |-> msg.name]>>
      [] OTHER              -> <<>>

EventsOfMessage(msg) ==
    CASE msg.m = "Id"       -> <<[e |-> "Id", name |-> msg.name, author |-> msg.author]>>
      [] msg.m = "UciOk"    -> <<[e |-> "Ready"]>>
      [] msg.m = "ReadyOk"  -> <<[e |-> "Ready"]>>
      [] msg.m = "Info"     -> <<[e |-> "Info", info |-> parse_info(msg.attrs)]>>
      [] msg.m = "BestMove" ->
            <<[e |-> "BestMove", best_move |-> msg.best_move, ponder |-> msg.ponder]>>
      [] msg.m = "Option"   -> <<[e |-> "Option", name |-> msg.name]>>
      [] OTHER              -> <<>>

(***************************************************************************)
(* One iteration of read_output's loop on a line: whether the loop goes on, *)
(* and the events sent to the channel.                                      *)
(***************************************************************************)
\* a loop that ends at a line that yields no event
read_line_strict(line) ==
    IF line = ReadError THEN [go_on |-> FALSE, events |-> <<>>]
    ELSE IF line.text = "" THEN [go_on |-> TRUE, events |-> <<>>]
    ELSE [go_on |-> EventsOfMessage(parse_one(line)) # <<>>,
          events |-> EventsOfMessage(parse_one(line))]

\* a loop that reports a read error as an Error event before it ends
read_line_reports(line) ==
    IF line = ReadError THEN [go_on |-> FALSE, events |-> <<[e |-> "Error"]>>]
    ELSE IF line.text = "" THEN [go_on |-> TRUE, events |-> <<>>]
    ELSE [go_on |-> TRUE, events |-> EventsOfMessage(parse_one(line))]

read_line(line) ==
    IF line = ReadError THEN [go_on |-> FALSE, events |-> <<>>]
    ELSE IF line.text = "" THEN [go_on |-> TRUE, events |-> <<>>]
    ELSE [go_on |-> TRUE, events |-> EventsOfMessage(parse_one(line))]


(***************************************************************************)
(* The commands the client writes.                                         *)
(***************************************************************************)
UciCmd == [c |-> "uci"]

StopCmd == [c |-> "stop"]

QuitCmd == [c |-> "quit"]

GoInfiniteCmd == [c |-> "go infinite"]

GoDepthCmd(n) == [c |-> "go depth", n |-> n]

SetOptionCmd(k, v) == [c |-> "setoption", name |-> k, value |-> v]

\* "position fen <FEN>" or "position startpos", then " moves m1 m2 ..."
\* when there are moves
PositionCmd(fen, moves) ==
    [c |-> "position",
     pos |-> IF IsSome(fen) THEN <<"fen", fen[1]>> ELSE <<"startpos">>,
     tail |-> IF moves = <<>> THEN <<>> ELSE <<"moves">> \o moves]

IsGo(cmd) == cmd.c \in {"go depth", "go infinite"}

(***************************************************************************)
(* The Engine value the control thread owns, as the operations below read   *)
(* and change it:                                                           *)
(*   is_analyzing, name, author   the struct's fields;                      *)
(*   written, alive, die_in       its stdin: what was written, whether the  *)
(*                                pipe is open, and after how many more     *)
(*                                writes the subprocess closes it (-1:      *)
(*                                not within this operation);               *)
(*   queue                        its event_rx;                             *)
(*   ok, ev                       the operation's result: Ok or Err, and    *)
(*                                the event try_recv returned.              *)
(***************************************************************************)
EngineValue(die_in) ==
    [is_analyzing |-> is_analyzing, name |-> name, author |-> author,
     written |-> written, alive |-> proc = "running", die_in |-> die_in,
     queue |-> queue, ok |-> TRUE, ev |-> None]

\* a send_command whose write never fails
send_command_always_writes(e, cmd) ==
    [e EXCEPT !.written = Append(@, cmd),
              !.die_in = IF @ > 0 THEN @ - 1 ELSE @,
              !.ok = TRUE]

\* a send_command that returns Ok whatever became of the write
send_command_swallows(e, cmd) ==
    IF e.alive /\ e.die_in # 0
    THEN [e EXCEPT !.written = Append(@, cmd),
                   !.die_in = IF @ > 0 THEN @ - 1 ELSE @,
                   !.ok = TRUE]
    ELSE [e EXCEPT !.alive = FALSE, !.ok = TRUE]

\* Engine::send_command: the line is written and flushed, or the write fails
send_command(e, cmd) ==
    IF e.alive /\ e.die_in # 0
    THEN [e EXCEPT !.written = Append(@, cmd),
                   !.die_in = IF @ > 0 THEN @ - 1 ELSE @,
                   !.ok = TRUE]
    ELSE [e EXCEPT !.alive = FALSE, !.ok = FALSE]

\* Engine::set_option
set_option(e, k, v) == send_command(e, SetOptionCmd(k, v))

\* a set_position that writes the moves keyword whatever the move list
set_position_moves_always(e, fen, moves) ==
    send_command(e, [c |-> "position",
                     pos |-> IF IsSome(fen) THEN <<"fen", fen[1]>> ELSE <<"startpos">>,
                     tail |-> <<"moves">> \o moves])

\* Engine::set_position
set_position(e, fen, moves) == send_command(e, PositionCmd(fen, moves))

\* Engine::go_infinite
go_infinite(e) == send_command([e EXCEPT !.is_analyzing = TRUE], GoInfiniteCmd)

\* a go_depth that writes nothing while the flag is set
go_depth_dedup(e, n) ==
    IF e.is_analyzing THEN [e EXCEPT !.ok = TRUE]
    ELSE send_command([e EXCEPT !.is_analyzing = TRUE], GoDepthCmd(n))

\* a go_depth that sets the flag once its command is written
go_depth_flag_after(e, n) ==
    LET s == send_command(e, GoDepthCmd(n))
    IN  IF s.ok THEN [s EXCEPT !.is_analyzing = TRUE] ELSE s

\* Engine::go_depth
go_depth(e, n) == send_command([e EXCEPT !.is_analyzing = TRUE], GoDepthCmd(n))

\* a stop that leaves the flag as it was
stop_keeps_flag(e) ==
    IF e.is_analyzing THEN send_command(e, StopCmd) ELSE [e EXCEPT !.ok = TRUE]

\* a stop that writes whatever the flag is
stop_always_writes(e) ==
    LET s == send_command(e, StopCmd)
    IN  IF s.ok THEN [s EXCEPT !.is_analyzing = FALSE] ELSE s

\* Engine::stop
stop(e) ==
    IF e.is_analyzing
    THEN LET s == send_command(e, StopCmd)
         IN  IF s.ok THEN [s EXCEPT !.is_analyzing = FALSE] ELSE s
    ELSE [e EXCEPT !.ok = TRUE]

\* a try_recv that leaves the flag as it was
try_recv_keeps_flag(e) ==
    IF e.queue # <<>>
    THEN [e EXCEPT !.queue = Tail(@), !.ev = Some(Head(e.queue))]
    ELSE [e EXCEPT !.ev = None]

\* a try_recv that takes the newest event
try_recv_newest(e) ==
    IF e.queue # <<>>
    THEN [e EXCEPT !.queue = SubSeq(@, 1, Len(@) - 1),
                   !.ev = Some(Last(e.queue)),
                   !.is_analyzing = IF Last(e.queue).e = "BestMove" THEN FALSE ELSE @]
    ELSE [e EXCEPT !.ev = None]

\* Engine::try_recv
try_recv(e) ==
    IF e.queue # <<>>
    THEN [e EXCEPT !.queue = Tail(@),
                   !.ev = Some(Head(e.queue)),
                   !.is_analyzing = IF Head(e.queue).e = "BestMove" THEN FALSE ELSE @]
    ELSE [e EXCEPT !.ev = None]


(***************************************************************************)
(* The state the three specifications start from share.                    *)
(***************************************************************************)
NoRet == [op |-> "none", ok |-> TRUE, ev |-> None]

\* AnalysisState::new
NewAnalysis(target_depth) ==
    [target_depth |-> target_depth, lines |-> <<>>, is_running |-> FALSE,
     is_paused |-> FALSE, nodes |-> None, nps |-> None, hashfull |-> None]

DefaultDepth == 20

\* the FEN of the standard initial position; a FEN is the sequence of this
\* string and the moves played from it
StartFen == <<"rnbqkbnr/pppppppp/8/8/8/8/PPPPPPPP/RNBQKBNR w KQkq - 0 1">>

hostVars == <<attached, analysis, game, last_fen, depth, host_op>>

uciVars == <<consumed, search, finished>>

HostIdle ==
    /\ attached = FALSE
    /\ analysis = NewAnalysis(DefaultDepth)
    /\ game = [initial |-> StartFen, position |-> StartFen, moves |-> <<>>,
               current_index |-> 0]
    /\ last_fen = StartFen
    /\ depth = DefaultDepth
    /\ host_op = [op |-> "none", ok |-> TRUE]

(***************************************************************************)
(* What an operation leaves in the variables: the Engine value e after it,  *)
(* its result, and the history of failed writes.                            *)
(***************************************************************************)
Commit(e, op) ==
    /\ is_analyzing' = e.is_analyzing
    /\ name' = e.name
    /\ author' = e.author
    /\ written' = e.written
    /\ queue' = e.queue
    /\ proc' = IF ~e.alive /\ proc = "running" THEN "exited" ELSE proc
    /\ ret' = [op |-> op, ok |-> e.ok, ev |-> e.ev]
    /\ write_failed' = (write_failed \/ ~e.ok)

(***************************************************************************)
(* Engine::new up to the handshake: spawn the executable, start the reader  *)
(* thread, write "uci".  A path that cannot be started is the launch        *)
(* error; a failed write drops the half-built Engine (Drop: quit, whose     *)
(* write fails as well, so that nothing is waited for).                     *)
(***************************************************************************)
new_start ==
    /\ pc = "start"
    /\ IF kind = "missing"
       THEN /\ pc' = "failed"
            /\ new_result' = "LaunchError"
            /\ UNCHANGED <<proc, reader, written, write_failed, clock>>
       ELSE \E die_in \in IF kind = "uci" THEN {-1, 0} ELSE {-1} :
              LET e == send_command([EngineValue(die_in) EXCEPT !.alive = TRUE], UciCmd)
              IN  /\ reader' = "running"
                  /\ written' = e.written
                  /\ clock' = 0
                  /\ write_failed' = ~e.ok
                  /\ IF e.ok
                     THEN /\ pc' = "handshake"
                          /\ proc' = "running"
                          /\ new_result' = "pending"
                     ELSE /\ pc' = "failed"
                          /\ proc' = "exited"
                          /\ new_result' = "IoError"
    /\ UNCHANGED <<kind, waited, stdout, queue, is_analyzing, name, author, ret,
                   emitted, received, last_op>>
    /\ UNCHANGED uciVars
    /\ UNCHANGED hostVars

(***************************************************************************)
(* Engine::new when wait_for_ready has failed: the Engine is dropped, and   *)
(* Drop runs quit: write "quit", then block in process.wait().              *)
(***************************************************************************)
new_fails(error) ==
    LET e == send_command(EngineValue(-1), QuitCmd)
    IN  /\ new_result' = error
        /\ pc' = IF e.ok THEN "wait_new" ELSE "failed"
        /\ written' = e.written
        /\ write_failed' = (write_failed \/ ~e.ok)
        /\ clock' = 0
        /\ UNCHANGED <<queue, received, name, author>>

(***************************************************************************)
(* One iteration of wait_for_ready's loop: the deadline test, then          *)
(* recv_timeout(100 ms).                                                    *)
(***************************************************************************)
\* a loop that returns at the first event, whatever it is
wait_for_ready_any_event ==
    /\ pc = "handshake"
    /\ IF clock >= HandshakeTimeoutMs
       THEN new_fails("HandshakeTimeout")
       ELSE IF queue # <<>>
       THEN /\ queue' = Tail(queue)
            /\ received' = Append(received, Head(queue))
            /\ pc' = "ready"
            /\ new_result' = "Ok"
            /\ clock' = 0
            /\ UNCHANGED <<name, author, written, write_failed>>
       ELSE IF reader = "done"
       THEN new_fails("Terminated")
       ELSE /\ clock' = clock + PollMs
            /\ UNCHANGED <<pc, new_result, queue, received, name, author,
                           written, write_failed>>

wait_for_ready_step ==
    /\ pc = "handshake"
    /\ IF clock >= HandshakeTimeoutMs
       THEN new_fails("HandshakeTimeout")
       ELSE IF queue # <<>>
       THEN LET ev == Head(queue)
            IN  /\ queue' = Tail(queue)
                /\ received' = Append(received, ev)
                /\ IF ev.e = "Ready"
                   THEN /\ pc' = "ready"
                        /\ new_result' = "Ok"
                        /\ clock' = 0
                        /\ UNCHANGED <<name, author>>
                   ELSE /\ IF ev.e = "Id"
                           THEN /\ name' = ev.name
                                /\ author' = ev.author
                           ELSE UNCHANGED <<name, author>>
                        /\ \E dt \in {0, PollMs} : clock' = clock + dt
                        /\ UNCHANGED <<pc, new_result>>
                /\ UNCHANGED <<written, write_failed>>
       ELSE IF reader = "done"
       THEN new_fails("Terminated")
       ELSE /\ clock' = clock + PollMs
            /\ UNCHANGED <<pc, new_result, queue, received, name, author,
                           written, write_failed>>

wait_for_ready ==
    /\ wait_for_ready_step
    /\ UNCHANGED <<kind, proc, waited, stdout, reader, is_analyzing, ret, emitted,
                   last_op>>
    /\ UNCHANGED uciVars
    /\ UNCHANGED hostVars

(***************************************************************************)
(* process.wait() in quit returns once the subprocess has exited: after a   *)
(* failed handshake Engine::new returns its error, after quit() the caller  *)
(* goes on, after a drop the client is gone.                                *)
(***************************************************************************)
process_wait ==
    /\ pc \in {"wait_new", "wait_quit", "wait_drop"}
    /\ proc = "exited"
    /\ waited' = TRUE
    /\ pc' = CASE pc = "wait_new"  -> "failed"
               [] pc = "wait_quit" -> "ready"
               [] pc = "wait_drop" -> "closed"
    /\ UNCHANGED <<new_result, kind, proc, written, stdout, reader, queue,
                   is_analyzing, name, author, clock, ret, emitted, received,
                   last_op, write_failed>>
    /\ UNCHANGED uciVars
    /\ UNCHANGED hostVars


(***************************************************************************)
(* The subprocess, for SpecNew and SpecClient: any program.  A "uci" one    *)
(* may write any of `lines` at any time and may exit at any time (on quit,  *)
(* or by itself); a "silent" one never writes and never exits.              *)
(***************************************************************************)
ProcEmit(lines, max) ==
    /\ proc = "running"
    /\ kind = "uci"
    /\ Len(emitted) < max
    /\ \E l \in lines :
          /\ stdout' = Append(stdout, l)
          /\ emitted' = Append(emitted, l)
    /\ UNCHANGED <<pc, new_result, kind, proc, waited, written, reader, queue,
                   is_analyzing, name, author, clock, ret, received, last_op,
                   write_failed>>
    /\ UNCHANGED uciVars
    /\ UNCHANGED hostVars

ProcExit ==
    /\ proc = "running"
    /\ kind = "uci"
    /\ proc' = "exited"
    /\ search' = 0
    /\ UNCHANGED <<pc, new_result, kind, waited, written, stdout, reader, queue,
                   is_analyzing, name, author, clock, ret, emitted, received,
                   last_op, write_failed, consumed, finished>>
    /\ UNCHANGED hostVars

(***************************************************************************)
(* The reader thread, Engine::read_output: one iteration of its loop on     *)
(* the next line of the subprocess' output, or the end of the stream.       *)
(***************************************************************************)
read_output ==
    /\ reader = "running"
    /\ IF stdout # <<>>
       THEN LET r == read_line(Head(stdout))
            IN  /\ stdout' = Tail(stdout)
                /\ queue' = queue \o r.events
                /\ reader' = IF r.go_on THEN "running" ELSE "done"
       ELSE /\ proc = "exited"
            /\ reader' = "done"
            /\ UNCHANGED <<stdout, queue>>
    /\ UNCHANGED <<pc, new_result, kind, proc, waited, written, is_analyzing, name,
                   author, clock, ret, emitted, received, last_op, write_failed>>
    /\ UNCHANGED uciVars
    /\ UNCHANGED hostVars

(***************************************************************************)
(* The caller of a constructed client: one action per public operation.     *)
(* max bounds the commands written.                                         *)
(***************************************************************************)
clientFrame == <<pc, new_result, kind, waited, stdout, reader, clock, emitted>>

CallGoDepth(max, n) ==
    /\ pc = "ready"
    /\ Len(written) < max
    /\ Commit(go_depth(EngineValue(-1), n), "go_depth")
    /\ last_op' = "go"
    /\ UNCHANGED <<clientFrame, received>>
    /\ UNCHANGED uciVars
    /\ UNCHANGED hostVars

CallGoInfinite(max) ==
    /\ pc = "ready"
    /\ Len(written) < max
    /\ Commit(go_infinite(EngineValue(-1)), "go_infinite")
    /\ last_op' = "go"
    /\ UNCHANGED <<clientFrame, received>>
    /\ UNCHANGED uciVars
    /\ UNCHANGED hostVars

CallStop(max) ==
    /\ pc = "ready"
    /\ Len(written) < max
    /\ Commit(stop(EngineValue(-1)), "stop")
    /\ last_op' = "stop"
    /\ UNCHANGED <<clientFrame, received>>
    /\ UNCHANGED uciVars
    /\ UNCHANGED hostVars

CallSetPosition(max, fen, moves) ==
    /\ pc = "ready"
    /\ Len(written) < max
    /\ Commit(set_position(EngineValue(-1), fen, moves), "set_position")
    /\ UNCHANGED <<clientFrame, received, last_op>>
    /\ UNCHANGED uciVars
    /\ UNCHANGED hostVars

CallSetOption(max, k, v) ==
    /\ pc = "ready"
    /\ Len(written) < max
    /\ Commit(set_option(EngineValue(-1), k, v), "set_option")
    /\ UNCHANGED <<clientFrame, received, last_op>>
    /\ UNCHANGED uciVars
    /\ UNCHANGED hostVars

CallTryRecv ==
    /\ pc = "ready"
    /\ LET e == try_recv(EngineValue(-1))
       IN  /\ Commit(e, "try_recv")
           /\ received' = received \o e.ev
           /\ last_op' = IF IsSome(e.ev) /\ e.ev[1].e = "BestMove"
                         THEN "bestmove" ELSE last_op
    /\ UNCHANGED clientFrame
    /\ UNCHANGED uciVars
    /\ UNCHANGED hostVars

(***************************************************************************)
(* Engine::quit, called by the caller or by Drop: write "quit" and, when    *)
(* the write succeeded, block in process.wait() (process_wait above).       *)
(***************************************************************************)
quit(waiting, done) ==
    LET e == send_command(EngineValue(-1), QuitCmd)
    IN  /\ Commit(e, "quit")
        /\ pc' = IF e.ok THEN waiting ELSE done

CallQuit ==
    /\ pc = "ready"
    /\ quit("wait_quit", "ready")
    /\ UNCHANGED <<new_result, kind, waited, stdout, reader, clock, emitted,
                   received, last_op>>
    /\ UNCHANGED uciVars
    /\ UNCHANGED hostVars

DropEngine ==
    /\ pc = "ready"
    /\ quit("wait_drop", "closed")
    /\ UNCHANGED <<new_result, kind, waited, stdout, reader, clock, emitted,
                   received, last_op>>
    /\ UNCHANGED uciVars
    /\ UNCHANGED hostVars

(***************************************************************************)
(* SpecNew: Engine::new against any executable, then the client's           *)
(* operations.                                                              *)
(***************************************************************************)
LinesNew == {BlankLine, NoiseLine, ReadError, UciOkLine, IdNameLine, IdAuthorLine}

InitNew ==
    /\ pc = "start"
    /\ new_result = "pending"
    /\ kind \in {"missing", "silent", "uci"}
    /\ proc = "none"
    /\ waited = FALSE
    /\ written = <<>>
    /\ consumed = 0
    /\ search = 0
    /\ finished = {}
    /\ stdout = <<>>
    /\ reader = "none"
    /\ queue = <<>>
    /\ is_analyzing = FALSE
    /\ name = None
    /\ author = None
    /\ clock = 0
    /\ ret = NoRet
    /\ emitted = <<>>
    /\ received = <<>>
    /\ last_op = "none"
    /\ write_failed = FALSE
    /\ HostIdle

ControlNew ==
    \/ new_start
    \/ wait_for_ready
    \/ process_wait
    \/ CallSetOption(MaxWrittenNew, "MultiPV", 3)
    \/ CallSetPosition(MaxWrittenNew, None, <<>>)
    \/ CallGoDepth(MaxWrittenNew, DefaultDepth)
    \/ CallStop(MaxWrittenNew)
    \/ CallTryRecv
    \/ DropEngine

NextNew ==
    \/ ControlNew
    \/ ProcEmit(LinesNew, MaxOutNew)
    \/ ProcExit
    \/ read_output

SpecNew == InitNew /\ [][NextNew]_vars


(***************************************************************************)
(* Properties of SpecNew.                                                   *)
(***************************************************************************)
ReadySeen == \E i \in 1..Len(received) : received[i].e = "Ready"

\* the lines of the subprocess' output the reader has read so far
LinesRead == SubSeq(emitted, 1, Len(emitted) - Len(stdout))

\* the lines the subprocess wrote before its first uciok
RECURSIVE BeforeUciOk(_)
BeforeUciOk(lines) ==
    IF lines = <<>> \/ Head(lines) = UciOkLine THEN <<>>
    ELSE <<Head(lines)>> \o BeforeUciOk(Tail(lines))

InSeq(x, seq) == \E i \in 1..Len(seq) : seq[i] = x

\* C2: Engine::new against a subprocess that never writes and never exits
\* does not hang: while the call is in progress the control thread can take
\* a step, and the error it returns is the handshake timeout.
C2_ConstructTerminates ==
    kind = "silent" =>
        /\ pc \in {"start", "handshake", "wait_new"} => ENABLED ControlNew
        /\ pc = "failed" => new_result = "HandshakeTimeout"

\* C3: after a successful handshake in which the subprocess wrote an
\* `id name X` line and an `id author Y` line before uciok, the client's
\* name is X and its author is Y.
C3_IdAccumulates ==
    ( /\ new_result = "Ok"
      /\ InSeq(IdNameLine, BeforeUciOk(emitted))
      /\ InSeq(IdAuthorLine, BeforeUciOk(emitted)) )
    => (name = Some("X") /\ author = Some("Y"))

\* C4: Engine::new returns a client only after a Ready event was taken from
\* the queue; the first command written is uci, and no setoption, position,
\* go or stop is written before that Ready event.
C4_HandshakeFirst ==
    /\ written # <<>> => written[1] = UciCmd
    /\ (new_result = "Ok" \/ pc = "ready") => ReadySeen
    /\ \A i \in 1..Len(written) :
          written[i].c \in {"setoption", "position", "go depth", "go infinite", "stop"}
          => ReadySeen

C4_Witness ==
    /\ pc = "ready"
    /\ Len(written) = 3
    /\ written[2].c = "setoption"
    /\ written[3].c = "go depth"
    /\ Len(received) = 2
    /\ received[1].e = "Id"
    /\ received[2].e = "Ready"


(***************************************************************************)
(* The decoder's grammar as the specification's table gives it: the event   *)
(* kind a line stands for, "" for a line that stands for none.              *)
(***************************************************************************)
GrammarKind(line) ==
    CASE line.text \in {"uciok", "readyok"} -> "Ready"
      [] line.text = "id"                   -> "Id"
      [] line.text = "info"                 -> "Info"
      [] line.text = "bestmove"             -> "BestMove"
      [] line.text = "option"               -> "Option"
      [] OTHER                              -> ""

RECURSIVE DecodableKinds(_)
DecodableKinds(lines) ==
    IF lines = <<>> THEN <<>>
    ELSE (IF GrammarKind(Head(lines)) = "" THEN <<>> ELSE <<GrammarKind(Head(lines))>>)
         \o DecodableKinds(Tail(lines))

\* what distinguishes one Id line from another
IdPayload(line) == <<line.key, line.val>>

RECURSIVE IdPayloads(_)
IdPayloads(lines) ==
    IF lines = <<>> THEN <<>>
    ELSE (IF Head(lines).text = "id" THEN <<IdPayload(Head(lines))>> ELSE <<>>)
         \o IdPayloads(Tail(lines))

EventPayload(ev) ==
    IF IsSome(ev.name) THEN <<"name", ev.name[1]>> ELSE <<"author", ev.author[1]>>

RECURSIVE EventPayloads(_)
EventPayloads(events) ==
    IF events = <<>> THEN <<>>
    ELSE (IF Head(events).e = "Id" THEN <<EventPayload(Head(events))>> ELSE <<>>)
         \o EventPayloads(Tail(events))

\* the events the control thread has taken, then those still queued
Delivered == received \o queue

\* C9: the events the control thread obtains (the handshake's drain, then
\* try_recv), followed by those still queued, are the decodable lines the
\* reader has read, one event per line, in the order written; blank and
\* undecodable lines yield none; the reader stops only at the end of the
\* stream or at a read error.
C9_OrderedDelivery ==
    /\ [i \in 1..Len(Delivered) |-> Delivered[i].e] = DecodableKinds(LinesRead)
    /\ EventPayloads(Delivered) = IdPayloads(LinesRead)
    /\ reader = "done" =>
          \/ LinesRead # <<>> /\ Last(LinesRead) = ReadError
          \/ proc = "exited" /\ stdout = <<>>

C9_Witness ==
    /\ pc = "ready"
    /\ emitted = <<NoiseLine, UciOkLine, IdNameLine>>
    /\ Len(received) = 2
    /\ received[1].e = "Ready"
    /\ received[2].e = "Id"
    /\ ret.op = "try_recv"

\* C23: the reader ends silently.  The step in which it ends (end of the
\* stream, a read error) queues nothing; once it has ended nothing more is
\* queued, the queue only loses the events the control thread takes; with
\* the queue drained every try_recv returns nothing and leaves the analyzing
\* flag as it was.
C23_ReaderEndsSilently ==
    /\ [][(reader = "running" /\ reader' = "done") => queue' = queue]_vars
    /\ [][reader = "done" =>
             /\ reader' = "done"
             /\ queue' \in {queue} \cup (IF queue = <<>> THEN {} ELSE {Tail(queue)})]_vars
    /\ [][(reader = "done" /\ queue = <<>> /\ CallTryRecv) =>
             /\ ret'.ev = None
             /\ UNCHANGED <<queue, is_analyzing>>]_vars

\* a read error after uciok and an id line: the Id event is taken, then a
\* try_recv returns nothing while the client is analyzing
C23_Witness ==
    /\ pc = "ready"
    /\ reader = "done"
    /\ emitted = <<UciOkLine, IdNameLine, ReadError>>
    /\ stdout = <<>>
    /\ queue = <<>>
    /\ Len(received) = 2
    /\ ret = [op |-> "try_recv", ok |-> TRUE, ev |-> None]
    /\ is_analyzing

(***************************************************************************)
(* SpecClient: a client whose handshake has just succeeded (the subprocess  *)
(* wrote uciok, wait_for_ready took the Ready event), driven by any caller  *)
(* against a subprocess that may write any of LinesClient and may exit.     *)
(***************************************************************************)
LinesClient == {BestMoveLine, InfoStatLine}

InitClient ==
    /\ pc = "ready"
    /\ new_result = "Ok"
    /\ kind = "uci"
    /\ proc = "running"
    /\ waited = FALSE
    /\ written = <<UciCmd>>
    /\ consumed = 0
    /\ search = 0
    /\ finished = {}
    /\ stdout = <<>>
    /\ reader = "running"
    /\ queue = <<>>
    /\ is_analyzing = FALSE
    /\ name = None
    /\ author = None
    /\ clock = 0
    /\ ret = NoRet
    /\ emitted = <<UciOkLine>>
    /\ received = <<[e |-> "Ready"]>>
    /\ last_op = "none"
    /\ write_failed = FALSE
    /\ HostIdle

GoDepthStep == CallGoDepth(1 + MaxWrittenClient, DefaultDepth)

GoInfiniteStep == CallGoInfinite(1 + MaxWrittenClient)

StopStep == CallStop(1 + MaxWrittenClient)

NextClient ==
    \/ GoDepthStep
    \/ GoInfiniteStep
    \/ StopStep
    \/ CallSetPosition(1 + MaxWrittenClient, Some(StartFen), <<>>)
    \/ CallTryRecv
    \/ CallQuit
    \/ DropEngine
    \/ process_wait
    \/ ProcEmit(LinesClient, 1 + MaxOutClient)
    \/ ProcExit
    \/ read_output

SpecClient == InitClient /\ [][NextClient]_vars

(***************************************************************************)
(* Properties of SpecClient.                                                *)
(***************************************************************************)

\* C5: while no command write has failed, the analyzing flag is true exactly
\* when the latest of {a go call, a stop call, a BestMove event returned by
\* try_recv} is a go call.
C5_AnalyzingIffLastIsGo ==
    ~write_failed => (is_analyzing <=> last_op = "go")

C5_Witness ==
    /\ ~write_failed
    /\ is_analyzing
    /\ last_op = "go"
    /\ Len(written) = 4
    /\ written[3] = StopCmd
    /\ \E i \in 1..Len(received) : received[i].e = "BestMove"

\* C6 as claimed: a stop() call leaves the analyzing flag false and writes
\* one stop command when the client was analyzing, none otherwise; a stop()
\* that follows a stop() writes nothing.
C6_StopIdempotent ==
    [][StopStep =>
        /\ ~is_analyzing'
        /\ written' = IF is_analyzing THEN Append(written, StopCmd) ELSE written
        /\ ret.op = "stop" => written' = written]_vars

\* C6 as amended: the same of every stop() whose write does not fail; a
\* stop() whose write fails writes nothing, returns the error and leaves the
\* flag true.
C6_StopIdempotentWhenWritten ==
    [][StopStep =>
        /\ ret'.ok => ~is_analyzing'
        /\ ret'.ok => written' = IF is_analyzing THEN Append(written, StopCmd)
                                 ELSE written
        /\ (ret.op = "stop" /\ ret.ok) => (ret'.ok /\ written' = written)
        /\ ~ret'.ok => (is_analyzing /\ is_analyzing' /\ written' = written)]_vars

C6_Witness ==
    /\ ret = [op |-> "stop", ok |-> TRUE, ev |-> None]
    /\ ~is_analyzing
    /\ written = <<UciCmd, GoDepthCmd(DefaultDepth), StopCmd>>
    /\ proc = "running"

\* C7 as claimed: every go_depth or go_infinite call appends its own go
\* command to what was written, whatever the analyzing flag was.
C7_EveryGoWritten ==
    [][ /\ GoDepthStep => written' = Append(written, GoDepthCmd(DefaultDepth))
        /\ GoInfiniteStep => written' = Append(written, GoInfiniteCmd)]_vars

\* C7 as amended: every go call whose write does not fail appends its own go
\* command, whatever the analyzing flag was; one whose write fails writes
\* nothing and returns the error.
C7_EveryGoWrittenUnlessFailed ==
    [][ /\ GoDepthStep =>
             written' = IF ret'.ok THEN Append(written, GoDepthCmd(DefaultDepth))
                        ELSE written
        /\ GoInfiniteStep =>
             written' = IF ret'.ok THEN Append(written, GoInfiniteCmd) ELSE written
        /\ (GoDepthStep \/ GoInfiniteStep) => (ret'.ok <=> proc = "running")]_vars

C7_Witness ==
    /\ written = <<UciCmd, GoDepthCmd(DefaultDepth), GoDepthCmd(DefaultDepth),
                   GoInfiniteCmd>>
    /\ is_analyzing
    /\ ~write_failed

\* C8: try_recv can always be taken (it never waits); with an event queued
\* it returns the oldest one and removes it, and the analyzing flag is false
\* afterwards if that event is a BestMove; with none queued it returns
\* nothing and leaves the client as it was.
C8_TryRecv ==
    /\ [](pc = "ready" => ENABLED CallTryRecv)
    /\ [][CallTryRecv =>
            IF queue # <<>>
            THEN /\ ret'.ev = Some(Head(queue))
                 /\ queue' = Tail(queue)
                 /\ Head(queue).e = "BestMove" => ~is_analyzing'
            ELSE /\ ret'.ev = None
                 /\ UNCHANGED <<queue, is_analyzing, name, author, written, proc>>]_vars

C8_Witness ==
    /\ ret.op = "try_recv"
    /\ IsSome(ret.ev)
    /\ ret.ev[1].e = "BestMove"
    /\ queue # <<>>
    /\ Head(queue).e = "Info"
    /\ ~is_analyzing
    /\ last_op = "bestmove"
    /\ Last(written) = GoInfiniteCmd


NumQuit(w) == Cardinality({i \in 1..Len(w) : w[i] = QuitCmd})

\* C19 as claimed: over the lifetime of a client quit is written exactly
\* once, at quit() or at the discard and not at both, and no command is
\* written after it.
C19_QuitExactlyOnce ==
    /\ NumQuit(written) <= 1
    /\ \A i \in 1..Len(written) : written[i] = QuitCmd => i = Len(written)
    /\ pc = "closed" => NumQuit(written) = 1

\* C19 as amended: quit is written at most once and no command is written
\* after it; a discarded client has written it once, unless the subprocess
\* had exited before the first quit() or discard, whose write then failed.
C19_QuitAtMostOnce ==
    /\ NumQuit(written) <= 1
    /\ \A i \in 1..Len(written) : written[i] = QuitCmd => i = Len(written)
    /\ pc = "closed" =>
          \/ NumQuit(written) = 1
          \/ ret = [op |-> "quit", ok |-> FALSE, ev |-> None] /\ proc = "exited"

\* an explicit quit() that was written and waited for, then the discard,
\* whose quit is not written
C19_Witness ==
    /\ pc = "closed"
    /\ waited
    /\ ret = [op |-> "quit", ok |-> FALSE, ev |-> None]
    /\ NumQuit(written) = 1
    /\ Last(written) = QuitCmd

\* C20: once the discard of a client has completed, its subprocess has been
\* waited for and has exited, also when the write of quit failed.
C20_NoOrphan ==
    pc = "closed" => (waited /\ proc = "exited")

\* quit() has written its command, waited for the subprocess and returned
QuitReturned == pc = "ready" /\ waited /\ NumQuit(written) = 1

\* C21: once quit() has returned, no later operation of the client (go_depth,
\* go_infinite, stop, try_recv, set_position) changes the analyzing flag.
C21_ClosedIsTerminal ==
    [][QuitReturned => is_analyzing' = is_analyzing]_vars

\* C22: after the handshake the control thread never waits on the
\* subprocess: an operation it is in, the quit of a discard included, can
\* complete whatever the subprocess does.
C22_OnlyHandshakeBlocks ==
    /\ pc = "ready" => ENABLED CallTryRecv
    /\ pc = "wait_drop" => ENABLED process_wait

\* the operation's write fails: the pipe is closed, or closes under it
WriteFails(e) == ~e.alive \/ e.die_in = 0

\* the operation returned the error and wrote nothing
Surfaced(e) == ~e.ok /\ e.written = written

\* C25: whenever the write of a command fails, the operation that wrote it
\* returns the error and nothing is written in its place (no retry):
\* set_option, set_position, go_depth, go_infinite, send_command, and stop
\* when the client is analyzing.
C25_WriteFailureSurfaced ==
    /\ [](\A d \in {-1, 0} :
             LET e == EngineValue(d)
             IN  WriteFails(e) =>
                    /\ Surfaced(send_command(e, UciCmd))
                    /\ Surfaced(set_option(e, "MultiPV", 3))
                    /\ Surfaced(set_position(e, Some(StartFen), <<"e2e4">>))
                    /\ Surfaced(go_depth(e, DefaultDepth))
                    /\ Surfaced(go_infinite(e))
                    /\ e.is_analyzing => Surfaced(stop(e)))
    /\ [][( /\ proc # "running"
            /\ \/ GoDepthStep
               \/ GoInfiniteStep
               \/ CallSetPosition(1 + MaxWrittenClient, Some(StartFen), <<>>)
               \/ StopStep /\ is_analyzing ) =>
             (~ret'.ok /\ write_failed' /\ written' = written)]_vars

\* a stop whose write failed, after a go infinite that was written
C25_Witness ==
    /\ pc = "ready"
    /\ ret = [op |-> "stop", ok |-> FALSE, ev |-> None]
    /\ proc = "exited"
    /\ is_analyzing
    /\ written = <<UciCmd, GoInfiniteCmd>>

\* C37: a go_depth or go_infinite whose write fails writes nothing and
\* leaves the client analyzing, whatever the flag was before; a stop whose
\* write fails leaves the client analyzing, and a stop called after it
\* tries the write again (it returns the error, not Ok).
C37_FlagAfterFailedWrite ==
    [][ /\ ((GoDepthStep \/ GoInfiniteStep) /\ ~ret'.ok) =>
               (is_analyzing' /\ written' = written)
        /\ (StopStep /\ ~ret'.ok) =>
               (is_analyzing /\ is_analyzing' /\ written' = written)
        /\ (StopStep /\ ret.op = "stop" /\ ~ret.ok) => ~ret'.ok]_vars

\* a go_depth on a client that was not analyzing, after the subprocess has
\* exited: nothing written, the flag set
C37_Witness ==
    /\ pc = "ready"
    /\ ret = [op |-> "go_depth", ok |-> FALSE, ev |-> None]
    /\ proc = "exited"
    /\ is_analyzing
    /\ written = <<UciCmd>>

(***************************************************************************)
(* SpecReader: the reader thread of a constructed client, against a         *)
(* subprocess that writes lines of every kind and may exit.                 *)
(***************************************************************************)
LinesReader ==
    {BlankLine, NoiseLine, UciOkLine, ReadyOkLine, IdNameLine, IdAuthorLine,
     BestMoveLine, BestMovePonderLine, OptionLine, InfoPvLine, InfoStatLine,
     CopyProtectionLine}

NextReader ==
    \/ ProcEmit(LinesReader, 1 + MaxOutReader)
    \/ ProcExit
    \/ read_output

SpecReader == InitClient /\ [][NextReader]_vars

\* the events queued by a step
Queued == SubSeq(queue', Len(queue) + 1, Len(queue'))

\* C29: the events the reader queues for a line it reads: uciok and readyok
\* give the same Ready event; bestmove gives one BestMove with the move and
\* the ponder move when there is one; option gives one Option event holding
\* the name only; id gives one Id event; info gives one Info event; a line
\* of any other kind gives none.
C29_EventMapping ==
    [][(read_output /\ stdout # <<>>) =>
          LET line == Head(stdout)
          IN  /\ SubSeq(queue', 1, Len(queue)) = queue
              /\ CASE line.text \in {"uciok", "readyok"} -> Queued = <<[e |-> "Ready"]>>
                   [] line.text = "bestmove" ->
                        Queued = <<[e |-> "BestMove", best_move |-> line.best_move,
                                    ponder |-> line.ponder]>>
                   [] line.text = "option" ->
                        Queued = <<[e |-> "Option", name |-> line.name]>>
                   [] line.text = "id" -> Len(Queued) = 1 /\ Queued[1].e = "Id"
                   [] line.text = "info" -> Len(Queued) = 1 /\ Queued[1].e = "Info"
                   [] OTHER -> Queued = <<>>]_vars

\* readyok, then a bestmove with a ponder move, both read
C29_Witness ==
    /\ emitted = <<UciOkLine, ReadyOkLine, BestMovePonderLine>>
    /\ stdout = <<>>
    /\ queue = <<[e |-> "Ready"],
                 [e |-> "BestMove", best_move |-> "e2e4", ponder |-> Some("e7e5")]>>

(***************************************************************************)
(* SpecInfo: the decoding of one info line.  The subprocess of a            *)
(* constructed client has written an info line of up to MaxAttrs            *)
(* attributes of different kinds, in any order: the nine parse_info has an  *)
(* arm for (a score as centipawns or as a mate distance) and two it has     *)
(* none for.  The reader reads the line, the control thread takes the       *)
(* event.                                                                   *)
(***************************************************************************)
AttrPool ==
    {[a |-> "Depth", v |-> 12], [a |-> "SelDepth", v |-> 18],
     [a |-> "Score", cp |-> Some(34), mate |-> None],
     [a |-> "Score", cp |-> None, mate |-> Some(-3)],
     [a |-> "Nodes", v |-> 1000], [a |-> "Nps", v |-> 500],
     [a |-> "Time", v |-> 250], [a |-> "MultiPv", v |-> 2],
     [a |-> "Pv", moves |-> <<"e2e4", "e7e5">>], [a |-> "HashFull", v |-> 7],
     [a |-> "CurrMove", v |-> "g1f3"], [a |-> "CurrLine", v |-> 1]}

AttrSeqs ==
    {as \in UNION {[1..n -> AttrPool] : n \in 0..MaxAttrs} :
        \A i, j \in 1..Len(as) : i # j => as[i].a # as[j].a}

InitInfo ==
    /\ pc = "ready"
    /\ new_result = "Ok"
    /\ kind = "uci"
    /\ proc = "running"
    /\ waited = FALSE
    /\ written = <<UciCmd>>
    /\ consumed = 0
    /\ search = 0
    /\ finished = {}
    /\ \E as \in AttrSeqs :
          /\ stdout = <<[text |-> "info", attrs |-> as]>>
          /\ emitted = <<UciOkLine, [text |-> "info", attrs |-> as]>>
    /\ reader = "running"
    /\ queue = <<>>
    /\ is_analyzing = FALSE
    /\ name = None
    /\ author = None
    /\ clock = 0
    /\ ret = NoRet
    /\ received = <<[e |-> "Ready"]>>
    /\ last_op = "none"
    /\ write_failed = FALSE
    /\ HostIdle

NextInfo ==
    \/ read_output
    \/ CallTryRecv
    \/ ProcExit

SpecInfo == InitInfo /\ [][NextInfo]_vars

\* the attribute of kind a in attrs, if there is one
AttrOfKind(attrs, a) ==
    IF \E i \in 1..Len(attrs) : attrs[i].a = a
    THEN Some(attrs[CHOOSE i \in 1..Len(attrs) : attrs[i].a = a])
    ELSE None

\* the value of the attribute of kind a, absent when there is none
ValueOf(attrs, a) ==
    IF IsSome(AttrOfKind(attrs, a)) THEN Some(AttrOfKind(attrs, a)[1].v) ELSE None

\* the AnalysisInfo the specification gives for a line's attributes
Decoded(attrs) ==
    [depth      |-> ValueOf(attrs, "Depth"),
     seldepth   |-> ValueOf(attrs, "SelDepth"),
     score_cp   |-> IF IsSome(AttrOfKind(attrs, "Score"))
                    THEN AttrOfKind(attrs, "Score")[1].cp ELSE None,
     score_mate |-> IF IsSome(AttrOfKind(attrs, "Score"))
                    THEN AttrOfKind(attrs, "Score")[1].mate ELSE None,
     nodes      |-> ValueOf(attrs, "Nodes"),
     nps        |-> ValueOf(attrs, "Nps"),
     time_ms    |-> ValueOf(attrs, "Time"),
     multipv    |-> ValueOf(attrs, "MultiPv"),
     pv         |-> IF IsSome(AttrOfKind(attrs, "Pv"))
                    THEN AttrOfKind(attrs, "Pv")[1].moves ELSE <<>>,
     hashfull   |-> ValueOf(attrs, "HashFull")]

\* C30: the Info event of a line holds, for each of depth, seldepth, score,
\* nodes, nps, time, multipv, pv and hashfull, the value of the line's
\* attribute of that kind, and nothing (an empty pv) where the line has
\* none, whatever the order of the attributes and whatever attributes of
\* other kinds stand among them.
C30_InfoDecoding ==
    /\ Len(queue) + Len(received) = 1 + (IF stdout = <<>> THEN 1 ELSE 0)
    /\ \A i \in 1..Len(Delivered) :
          Delivered[i].e = "Info" =>
              Delivered[i] = [e |-> "Info", info |-> Decoded(emitted[2].attrs)]

\* the line `info currmove g1f3 pv e2e4 e7e5 depth 12`, taken by try_recv
C30_Witness ==
    /\ emitted[2].attrs = <<[a |-> "CurrMove", v |-> "g1f3"],
                            [a |-> "Pv", moves |-> <<"e2e4", "e7e5">>],
                            [a |-> "Depth", v |-> 12]>>
    /\ stdout = <<>>
    /\ Len(received) = 2
    /\ ret.op = "try_recv"
    /\ ret.ev = Some([e |-> "Info",
                      info |-> [DefaultInfo EXCEPT !.pv = <<"e2e4", "e7e5">>,
                                                   !.depth = Some(12)]])

(***************************************************************************)
(* The analysis aggregator (ui/analysis.rs).                                *)
(***************************************************************************)

\* Option::unwrap_or
unwrap_or(o, d) == IF IsSome(o) THEN o[1] ELSE d

\* u32::saturating_sub
saturating_sub(a, b) == IF a >= b THEN a - b ELSE 0

\* the while loop of update: push defaults until lines.len() > line_idx
RECURSIVE Grow(_, _)
Grow(lines, line_idx) ==
    IF Len(lines) <= line_idx THEN Grow(Append(lines, DefaultInfo), line_idx)
    ELSE lines

\* an update that writes the slot whatever the pv
update_slot_always(an, info) ==
    LET line_idx == saturating_sub(unwrap_or(info.multipv, 1), 1)
        stats == [an EXCEPT
                    !.nodes = IF IsSome(info.nodes) THEN info.nodes ELSE @,
                    !.nps = IF IsSome(info.nps) THEN info.nps ELSE @,
                    !.hashfull = IF IsSome(info.hashfull) THEN info.hashfull ELSE @]
    IN  [stats EXCEPT !.lines = [Grow(@, line_idx) EXCEPT ![line_idx + 1] = info]]

\* an update that takes the rank for the slot index
update_rank_as_index(an, info) ==
    LET line_idx == unwrap_or(info.multipv, 1)
        stats == [an EXCEPT
                    !.nodes = IF IsSome(info.nodes) THEN info.nodes ELSE @,
                    !.nps = IF IsSome(info.nps) THEN info.nps ELSE @,
                    !.hashfull = IF IsSome(info.hashfull) THEN info.hashfull ELSE @]
    IN  IF info.pv # <<>>
        THEN [stats EXCEPT !.lines = [Grow(@, line_idx) EXCEPT ![line_idx + 1] = info]]
        ELSE stats

\* an update that drops the slots above the one it writes
update_truncates(an, info) ==
    LET line_idx == saturating_sub(unwrap_or(info.multipv, 1), 1)
        stats == [an EXCEPT
                    !.nodes = IF IsSome(info.nodes) THEN info.nodes ELSE @,
                    !.nps = IF IsSome(info.nps) THEN info.nps ELSE @,
                    !.hashfull = IF IsSome(info.hashfull) THEN info.hashfull ELSE @]
    IN  IF info.pv # <<>>
        THEN [stats EXCEPT !.lines =
                 SubSeq([Grow(@, line_idx) EXCEPT ![line_idx + 1] = info], 1, line_idx + 1)]
        ELSE stats

\* an update that keeps the first move of the pv only
update_first_move(an, info) ==
    LET line_idx == saturating_sub(unwrap_or(info.multipv, 1), 1)
        stats == [an EXCEPT
                    !.nodes = IF IsSome(info.nodes) THEN info.nodes ELSE @,
                    !.nps = IF IsSome(info.nps) THEN info.nps ELSE @,
                    !.hashfull = IF IsSome(info.hashfull) THEN info.hashfull ELSE @]
    IN  IF info.pv # <<>>
        THEN [stats EXCEPT !.lines = [Grow(@, line_idx) EXCEPT
                                         ![line_idx + 1] = [info EXCEPT !.pv = <<Head(@)>>]]]
        ELSE stats

\* an update that stores the stats of a message with a pv only
update_stats_with_pv(an, info) ==
    LET line_idx == saturating_sub(unwrap_or(info.multipv, 1), 1)
        stats == [an EXCEPT
                    !.nodes = IF IsSome(info.nodes) THEN info.nodes ELSE @,
                    !.nps = IF IsSome(info.nps) THEN info.nps ELSE @,
                    !.hashfull = IF IsSome(info.hashfull) THEN info.hashfull ELSE @]
    IN  IF info.pv # <<>>
        THEN [stats EXCEPT !.lines = [Grow(@, line_idx) EXCEPT ![line_idx + 1] = info]]
        ELSE an

\* an update that keeps what the slot had where the message has nothing
update_merges(an, info) ==
    LET line_idx == saturating_sub(unwrap_or(info.multipv, 1), 1)
        stats == [an EXCEPT
                    !.nodes = IF IsSome(info.nodes) THEN info.nodes ELSE @,
                    !.nps = IF IsSome(info.nps) THEN info.nps ELSE @,
                    !.hashfull = IF IsSome(info.hashfull) THEN info.hashfull ELSE @]
        old == Grow(an.lines, line_idx)[line_idx + 1]
    IN  IF info.pv # <<>>
        THEN [stats EXCEPT !.lines = [Grow(@, line_idx) EXCEPT ![line_idx + 1] =
                 [info EXCEPT !.depth = IF IsSome(@) THEN @ ELSE old.depth,
                              !.nodes = IF IsSome(@) THEN @ ELSE old.nodes,
                              !.multipv = IF IsSome(@) THEN @ ELSE old.multipv]]]
        ELSE stats

\* an update that writes no slot for a message of rank 0
update_checked_sub(an, info) ==
    LET rank == unwrap_or(info.multipv, 1)
        stats == [an EXCEPT
                    !.nodes = IF IsSome(info.nodes) THEN info.nodes ELSE @,
                    !.nps = IF IsSome(info.nps) THEN info.nps ELSE @,
                    !.hashfull = IF IsSome(info.hashfull) THEN info.hashfull ELSE @]
    IN  IF info.pv # <<>> /\ rank >= 1
        THEN [stats EXCEPT !.lines = [Grow(@, rank - 1) EXCEPT ![rank] = info]]
        ELSE stats

\* AnalysisState::update; lines[line_idx] of the source is lines[line_idx + 1] here
update(an, info) ==
    LET line_idx == saturating_sub(unwrap_or(info.multipv, 1), 1)
        stats == [an EXCEPT
                    !.nodes = IF IsSome(info.nodes) THEN info.nodes ELSE @,
                    !.nps = IF IsSome(info.nps) THEN info.nps ELSE @,
                    !.hashfull = IF IsSome(info.hashfull) THEN info.hashfull ELSE @]
    IN  IF info.pv # <<>>
        THEN [stats EXCEPT !.lines = [Grow(@, line_idx) EXCEPT ![line_idx + 1] = info]]
        ELSE stats

\* a clear that gives back a new AnalysisState of the same target depth
clear_renews(an) ==
    [target_depth |-> an.target_depth, lines |-> <<>>, is_running |-> FALSE,
     is_paused |-> FALSE, nodes |-> None, nps |-> None, hashfull |-> None]

\* AnalysisState::clear
clear(an) ==
    [an EXCEPT !.lines = <<>>, !.nodes = None, !.nps = None, !.hashfull = None]

(***************************************************************************)
(* SpecAgg: the aggregator alone, under any sequence of update and clear    *)
(* calls.  The messages: stat-only ones of rank 3, ones with a pv of        *)
(* every rank from 0 to 3 and of none, and the decoded lines                *)
(* `info depth 12 score cp 34 nodes 1000` and                               *)
(* `info depth 12 multipv 2 pv g1f3 g8f6 e7e8q`.  received holds the        *)
(* messages applied since the last clear, host_op the last call.            *)
(***************************************************************************)
StatExample ==
    parse_info(<<[a |-> "Depth", v |-> 12],
                 [a |-> "Score", cp |-> Some(34), mate |-> None],
                 [a |-> "Nodes", v |-> 1000]>>)

StatInfos ==
    {[DefaultInfo EXCEPT !.multipv = r, !.nodes = n, !.nps = p, !.hashfull = h] :
        r \in {Some(3)}, n \in {None, Some(1000), Some(2000)},
        p \in {None, Some(500)}, h \in {None, Some(7)}}

PvInfos ==
    {[DefaultInfo EXCEPT !.multipv = r, !.nodes = n, !.pv = <<"e2e4", "e7e5">>] :
        r \in {None, Some(0), Some(1), Some(2), Some(3)}, n \in {None, Some(3000)}}

\* the decoded line `info depth 12 multipv 2 pv g1f3 g8f6 e7e8q`
PvExample ==
    parse_info(<<[a |-> "Depth", v |-> 12], [a |-> "MultiPv", v |-> 2],
                 [a |-> "Pv", moves |-> <<"g1f3", "g8f6", "e7e8q">>]>>)

Infos == StatInfos \cup PvInfos \cup {StatExample, PvExample}

aggFrame == <<pc, new_result, kind, proc, waited, written, consumed, search,
              finished, stdout, reader, queue, is_analyzing, name, author, clock,
              ret, emitted, last_op, write_failed, attached, game, last_fen, depth>>

InitAgg ==
    /\ pc = "host"
    /\ new_result = "LaunchError"
    /\ kind = "missing"
    /\ proc = "none"
    /\ waited = FALSE
    /\ written = <<>>
    /\ consumed = 0
    /\ search = 0
    /\ finished = {}
    /\ stdout = <<>>
    /\ reader = "none"
    /\ queue = <<>>
    /\ is_analyzing = FALSE
    /\ name = None
    /\ author = None
    /\ clock = 0
    /\ ret = NoRet
    /\ emitted = <<>>
    /\ received = <<>>
    /\ last_op = "none"
    /\ write_failed = FALSE
    /\ HostIdle

AggApply(info) ==
    /\ Len(received) < 1 + MaxUpdates
    /\ analysis' = update(analysis, info)
    /\ received' = Append(received, [e |-> "Info", info |-> info])
    /\ host_op' = [op |-> "update", ok |-> TRUE]
    /\ UNCHANGED aggFrame

AggUpdate == \E info \in Infos : AggApply(info)

AggClear ==
    /\ analysis' = clear(analysis)
    /\ received' = <<>>
    /\ host_op' = [op |-> "clear", ok |-> TRUE]
    /\ UNCHANGED aggFrame

NextAgg ==
    \/ AggUpdate
    \/ AggClear

SpecAgg == InitAgg /\ [][NextAgg]_vars

(***************************************************************************)
(* Properties of SpecAgg.                                                   *)
(***************************************************************************)
Stored(old, new) == IF IsSome(new) THEN new ELSE old

\* C11: an update with a message whose pv is empty leaves the line array as
\* it was, whatever the rank, and stores the nodes, nps and hashfull the
\* message carries; applied to a cleared aggregator, the message with
\* nodes 1000 and no pv leaves the line array empty and nodes at 1000.
C11_EmptyPvKeepsLines ==
    /\ [](received = <<[e |-> "Info", info |-> StatExample]>> =>
             analysis.lines = <<>> /\ analysis.nodes = Some(1000))
    /\ [][\A info \in Infos : (AggApply(info) /\ info.pv = <<>>) =>
             /\ analysis'.lines = analysis.lines
             /\ analysis'.nodes = Stored(analysis.nodes, info.nodes)
             /\ analysis'.nps = Stored(analysis.nps, info.nps)
             /\ analysis'.hashfull = Stored(analysis.hashfull, info.hashfull)]_vars

\* a stat-only message of rank 3 applied after a line was stored
C11_Witness ==
    /\ Len(received) = 2
    /\ received[1].info.pv # <<>>
    /\ received[2].info.pv = <<>>
    /\ received[2].info.multipv = Some(3)
    /\ received[2].info.nodes = Some(1000)
    /\ Len(analysis.lines) = 1
    /\ analysis.nodes = Some(1000)

Max(a, b) == IF a >= b THEN a ELSE b

\* what an update with a pv and slot r (counted from 1) does to the line array
WritesSlot(info, r) ==
    /\ Len(analysis'.lines) = Max(Len(analysis.lines), r)
    /\ r \in DOMAIN analysis'.lines
    /\ analysis'.lines[r] = info
    /\ \A i \in (Len(analysis.lines) + 1)..(r - 1) : analysis'.lines[i] = DefaultInfo

\* C12 as claimed: an update with a message that has a pv and rank r (1 when
\* absent) on a line array of length L gives an array of length max(L, r)
\* whose slot r-1 is the message and whose new slots below are placeholders.
C12_GrowToRank ==
    [][\A info \in Infos : (AggApply(info) /\ info.pv # <<>>) =>
          WritesSlot(info, unwrap_or(info.multipv, 1))]_vars

\* C12 as amended: the same for every rank r >= 1; a message of rank 0 is
\* stored as one of rank 1.  A rank-3 update on a cleared aggregator gives
\* three slots, the first two placeholders.
C12_GrowToRankFromOne ==
    /\ []((Len(received) = 1 /\ received[1].info.pv # <<>>
                            /\ received[1].info.multipv = Some(3)) =>
             /\ Len(analysis.lines) = 3
             /\ analysis.lines[1] = DefaultInfo
             /\ analysis.lines[2] = DefaultInfo
             /\ analysis.lines[3] = received[1].info)
    /\ [][\A info \in Infos : (AggApply(info) /\ info.pv # <<>>) =>
             WritesSlot(info, Max(unwrap_or(info.multipv, 1), 1))]_vars

\* a rank-3 message on a cleared aggregator, then a message of rank 0
C12_Witness ==
    /\ Len(received) = 2
    /\ received[1].info.pv # <<>>
    /\ received[1].info.multipv = Some(3)
    /\ received[2].info.pv # <<>>
    /\ received[2].info.multipv = Some(0)
    /\ Len(analysis.lines) = 3
    /\ analysis.lines[1] = received[2].info
    /\ analysis.lines[2] = DefaultInfo

\* C13: between two clear calls the line array never gets shorter; its
\* length changes only by growing in an update with a pv, or by the reset
\* to zero of clear.
C13_LinesNeverShrink ==
    [][ /\ AggUpdate => Len(analysis'.lines) >= Len(analysis.lines)
        /\ Len(analysis'.lines) # Len(analysis.lines) =>
              \/ /\ AggUpdate
                 /\ Last(received').info.pv # <<>>
                 /\ Len(analysis'.lines) > Len(analysis.lines)
              \/ /\ AggClear
                 /\ analysis'.lines = <<>>]_vars

\* a rank-3 message, a message of lower rank, then a stat-only message
C13_Witness ==
    /\ Len(received) = 3
    /\ received[1].info.multipv = Some(3)
    /\ received[1].info.pv # <<>>
    /\ received[2].info.multipv = Some(1)
    /\ received[2].info.pv # <<>>
    /\ received[3].info.pv = <<>>
    /\ Len(analysis.lines) = 3

\* the value of field f in the latest message of log that carries one
RECURSIVE LatestSeen(_, _)
LatestSeen(log, f) ==
    IF log = <<>> THEN None
    ELSE IF IsSome(Last(log).info[f]) THEN Last(log).info[f]
    ELSE LatestSeen(SubSeq(log, 1, Len(log) - 1), f)

\* C14: after any sequence of updates since the last clear, nodes is the
\* nodes of the latest message that carried nodes, unknown when none did,
\* whatever that message's rank and pv; the same for nps and for hashfull.
C14_StatsLatestSeen ==
    /\ analysis.nodes = LatestSeen(received, "nodes")
    /\ analysis.nps = LatestSeen(received, "nps")
    /\ analysis.hashfull = LatestSeen(received, "hashfull")

\* nodes from a stat-only message of rank 3, nps from an earlier one, then
\* a message with a pv and no stats
C14_Witness ==
    /\ Len(received) = 3
    /\ received[1].info.nps = Some(500) /\ received[1].info.nodes = Some(2000)
    /\ received[2].info.nodes = Some(1000) /\ received[2].info.nps = None
    /\ received[2].info.multipv = Some(3) /\ received[2].info.pv = <<>>
    /\ received[3].info.pv # <<>> /\ received[3].info.nodes = None
    /\ analysis.nodes = Some(1000)
    /\ analysis.nps = Some(500)
    /\ analysis.hashfull = None

(***************************************************************************)
(* SpecClear: clear on an aggregator of any target depth, running, paused   *)
(* or neither, empty or filled by updates.                                  *)
(***************************************************************************)
ShallowDepth == 12

ClearInfos ==
    {StatExample, PvExample,
     [DefaultInfo EXCEPT !.pv = <<"e2e4", "e7e5">>, !.nodes = Some(3000)]}

InitClear ==
    /\ pc = "host"
    /\ new_result = "LaunchError"
    /\ kind = "missing"
    /\ proc = "none"
    /\ waited = FALSE
    /\ written = <<>>
    /\ consumed = 0
    /\ search = 0
    /\ finished = {}
    /\ stdout = <<>>
    /\ reader = "none"
    /\ queue = <<>>
    /\ is_analyzing = FALSE
    /\ name = None
    /\ author = None
    /\ clock = 0
    /\ ret = NoRet
    /\ emitted = <<>>
    /\ received = <<>>
    /\ last_op = "none"
    /\ write_failed = FALSE
    /\ attached = FALSE
    /\ game = [initial |-> StartFen, position |-> StartFen, moves |-> <<>>,
               current_index |-> 0]
    /\ last_fen = StartFen
    /\ depth = DefaultDepth
    /\ host_op = [op |-> "none", ok |-> TRUE]
    /\ \E d \in {ShallowDepth, DefaultDepth}, running \in BOOLEAN, paused \in BOOLEAN :
          /\ ~(running /\ paused)
          /\ analysis = [NewAnalysis(d) EXCEPT !.is_running = running,
                                               !.is_paused = paused]

UpdateStep == \E info \in ClearInfos : AggApply(info)

\* a clear call; host_op keeps the aggregator it was called on
ClearStep ==
    /\ analysis' = clear(analysis)
    /\ received' = <<>>
    /\ host_op' = [op |-> "clear", ok |-> TRUE, before |-> analysis]
    /\ UNCHANGED aggFrame

NextClear ==
    \/ UpdateStep
    \/ ClearStep

SpecClear == InitClear /\ [][NextClear]_vars

\* C28: a clear call leaves the line array empty and nodes, nps and
\* hashfull unknown, and the target depth, is_running and is_paused as they
\* were, whatever the aggregator held.
C28_ClearFrame ==
    [][ClearStep =>
          /\ analysis'.lines = <<>>
          /\ analysis'.nodes = None
          /\ analysis'.nps = None
          /\ analysis'.hashfull = None
          /\ analysis'.target_depth = analysis.target_depth
          /\ analysis'.is_running = analysis.is_running
          /\ analysis'.is_paused = analysis.is_paused
          /\ DOMAIN analysis' = DOMAIN analysis]_vars

\* a clear of a running aggregator of depth 12 that held two slots and a
\* node count
C28_Witness ==
    /\ host_op.op = "clear"
    /\ Len(host_op.before.lines) = 2
    /\ host_op.before.nodes = Some(1000)
    /\ host_op.before.is_running
    /\ analysis.is_running
    /\ analysis.target_depth = ShallowDepth
    /\ analysis.lines = <<>>
    /\ analysis.nodes = None

\* C38: an update with a message that has a pv replaces the whole slot it
\* writes and no other: the slot equals the message, field by field (a
\* field the message lacks is absent in the slot, whatever the slot held),
\* and every slot that existed before, other than that one, is as it was.
C38_SlotReplacedWhole ==
    [][\A info \in Infos : (AggApply(info) /\ info.pv # <<>>) =>
          \E r \in 1..Len(analysis'.lines) :
             /\ r = Max(unwrap_or(info.multipv, 1), 1)
             /\ \A f \in DOMAIN info : analysis'.lines[r][f] = info[f]
             /\ DOMAIN analysis'.lines[r] = DOMAIN info
             /\ \A i \in 1..Len(analysis.lines) :
                    i # r => analysis'.lines[i] = analysis.lines[i]]_vars

\* slot 1 held nodes 3000; a message of no rank and no nodes replaced it,
\* and the decoded line in slot 2 stayed
C38_Witness ==
    /\ Len(received) = 3
    /\ received[1].info.multipv = Some(1)
    /\ received[1].info.nodes = Some(3000)
    /\ received[1].info.pv # <<>>
    /\ received[2].info = PvExample
    /\ received[3].info.multipv = None
    /\ received[3].info.nodes = None
    /\ received[3].info.pv # <<>>
    /\ analysis.lines[1].nodes = None
    /\ analysis.lines[1].multipv = None
    /\ analysis.lines[2] = PvExample

\* C39: the slot index of an update is rank - 1 for a rank of 1 or more and
\* is always an index of the line array after the update; a message of
\* rank 0 with a pv is stored like one of rank 1, in the first slot, and
\* the update neither fails nor leaves the message out.
C39_RankZeroInFirstSlot ==
    [][\A info \in Infos : (AggApply(info) /\ info.pv # <<>>) =>
          LET rank == unwrap_or(info.multipv, 1)
              line_idx == IF rank >= 1 THEN rank - 1 ELSE 0
          IN  /\ line_idx >= 0
              /\ line_idx < Len(analysis'.lines)
              /\ analysis'.lines[line_idx + 1] = info
              /\ rank = 0 =>
                    analysis'.lines =
                       [update(analysis, [info EXCEPT !.multipv = Some(1)]).lines
                           EXCEPT ![1] = info]]_vars

\* a message of rank 0 stored in the first slot of an empty line array
C39_Witness ==
    /\ Len(received) = 1
    /\ received[1].info.multipv = Some(0)
    /\ received[1].info.pv # <<>>
    /\ received[1].info.nodes = Some(3000)
    /\ Len(analysis.lines) = 1
    /\ analysis.lines[1].multipv = Some(0)
    /\ analysis.nodes = Some(3000)

\* the slot (counted from 1) an update with a pv writes
SlotOf(info) == saturating_sub(unwrap_or(info.multipv, 1), 1) + 1

\* C27: after an update with a message whose pv is not empty, the pv of the
\* slot it wrote has the tokens of the message's pv, as many and each equal
\* to the token at its place.
C27_PvRoundTrip ==
    [][\A info \in Infos : (AggApply(info) /\ info.pv # <<>>) =>
          LET stored == analysis'.lines[SlotOf(info)].pv
          IN  /\ Len(stored) = Len(info.pv)
              /\ \A i \in 1..Len(info.pv) : stored[i] = info.pv[i]]_vars

\* the decoded three-move line stored in slot 2 under a rank-3 line
C27_Witness ==
    /\ Len(received) = 2
    /\ received[1].info.multipv = Some(3)
    /\ received[1].info.pv = <<"e2e4", "e7e5">>
    /\ received[2].info = PvExample
    /\ Len(analysis.lines) = 3
    /\ analysis.lines[2].pv = <<"g1f3", "g8f6", "e7e8q">>
    /\ analysis.lines[3].pv = <<"e2e4", "e7e5">>


(***************************************************************************)
(* The game (chess/game.rs), as far as the session controller reads it: a   *)
(* position stands for the moves that lead to it from the initial one.      *)
(***************************************************************************)
NewGame ==
    [initial |-> StartFen, position |-> StartFen, moves |-> <<>>, current_index |-> 0]

\* Game::to_fen: the FEN of the current position
to_fen(g) == g.position

\* the move texts of the model: two the rules accept in every position of
\* the model, one they reject, and a move number, which parse_pgn skips
LegalSan == "e4"

OtherSan == "Nf3"

IllegalSan == "Zz9"

MoveNumber == "1."

\* Position::play: the position after the move, None for a move the rules
\* reject; a position is the initial FEN followed by the moves played
play(pos, m) == IF m \in {LegalSan, OtherSan} THEN Some(Append(pos, m)) ELSE None

\* a make_move that keeps the moves after current_index
make_move_keeps_tail(g, m) ==
    LET p == play(g.position, m)
    IN  IF IsSome(p)
        THEN [game |-> [g EXCEPT !.position = p[1],
                                 !.moves = Append(@, m),
                                 !.current_index = Len(g.moves) + 1],
              ok |-> TRUE]
        ELSE [game |-> g, ok |-> FALSE]

\* Game::make_move: the truncation comes before the move is played
make_move(g, m) ==
    LET kept == IF g.current_index < Len(g.moves)
                THEN SubSeq(g.moves, 1, g.current_index) ELSE g.moves
        p    == play(g.position, m)
    IN  IF IsSome(p)
        THEN [game |-> [g EXCEPT !.position = p[1],
                                 !.moves = Append(kept, m),
                                 !.current_index = Len(kept) + 1],
              ok |-> TRUE]
        ELSE [game |-> [g EXCEPT !.moves = kept], ok |-> FALSE]

\* Game::make_move_san: the text is parsed and matched with a legal move
\* before make_move is called
make_move_san(g, san) ==
    IF IsSome(play(g.position, san)) THEN make_move(g, san)
    ELSE [game |-> g, ok |-> FALSE]

\* the for loop of rebuild_position
RECURSIVE Replay(_, _)
Replay(pos, ms) ==
    IF ms = <<>> THEN pos ELSE Replay(play(pos, Head(ms))[1], Tail(ms))

\* Game::rebuild_position
rebuild_position(g) ==
    [g EXCEPT !.position = Replay(g.initial, SubSeq(g.moves, 1, g.current_index))]

\* Game::go_back
go_back(g) ==
    IF g.current_index > 0
    THEN [game |-> rebuild_position([g EXCEPT !.current_index = @ - 1]), moved |-> TRUE]
    ELSE [game |-> g, moved |-> FALSE]

\* Game::go_forward
go_forward(g) ==
    IF g.current_index < Len(g.moves)
    THEN [game |-> rebuild_position([g EXCEPT !.current_index = @ + 1]), moved |-> TRUE]
    ELSE [game |-> g, moved |-> FALSE]

\* Game::go_to_start
go_to_start(g) == rebuild_position([g EXCEPT !.current_index = 0])

\* Game::go_to_end
go_to_end(g) == rebuild_position([g EXCEPT !.current_index = Len(g.moves)])

\* Game::reset
reset(g) == NewGame

\* the FEN texts of the model: one of a legal position, one that is none
OtherFen == <<"4k3/8/8/8/8/8/4P3/4K3 w - - 0 1">>

BadFen == <<"not a fen">>

\* Game::load_fen: the game is replaced only when the text is a position
load_fen(g, fen) ==
    IF fen = OtherFen
    THEN [game |-> [initial |-> fen, position |-> fen, moves |-> <<>>,
                    current_index |-> 0],
          ok |-> TRUE]
    ELSE [game |-> g, ok |-> FALSE]

(***************************************************************************)
(* SpecGame: the Game alone, under any sequence of its operations: moves    *)
(* the rules accept and one they reject, the four navigation calls, reset   *)
(* and load_fen of a position and of a text that is none.  host_op holds    *)
(* the last call, its result and the game before it.                        *)
(***************************************************************************)
MaxGameMoves == 3

GameMoves == {LegalSan, OtherSan, IllegalSan}

gameFrame == <<pc, new_result, kind, proc, waited, written, consumed, search,
               finished, stdout, reader, queue, is_analyzing, name, author, clock,
               ret, emitted, received, last_op, write_failed, attached, analysis,
               last_fen, depth>>

InitGame ==
    /\ pc = "host"
    /\ new_result = "LaunchError"
    /\ kind = "missing"
    /\ proc = "none"
    /\ waited = FALSE
    /\ written = <<>>
    /\ consumed = 0
    /\ search = 0
    /\ finished = {}
    /\ stdout = <<>>
    /\ reader = "none"
    /\ queue = <<>>
    /\ is_analyzing = FALSE
    /\ name = None
    /\ author = None
    /\ clock = 0
    /\ ret = NoRet
    /\ emitted = <<>>
    /\ received = <<>>
    /\ last_op = "none"
    /\ write_failed = FALSE
    /\ HostIdle

GameCall(op, g, ok) ==
    /\ game' = g
    /\ host_op' = [op |-> op, ok |-> ok, before |-> game]
    /\ UNCHANGED gameFrame

GameMakeMove(m) ==
    /\ game.current_index < MaxGameMoves
    /\ LET r == make_move(game, m) IN GameCall("make_move", r.game, r.ok)

GameBack == LET r == go_back(game) IN GameCall("go_back", r.game, r.moved)

GameForward == LET r == go_forward(game) IN GameCall("go_forward", r.game, r.moved)

GameToStart == GameCall("go_to_start", go_to_start(game), TRUE)

GameToEnd == GameCall("go_to_end", go_to_end(game), TRUE)

GameReset == GameCall("reset", reset(game), TRUE)

GameLoadFen(fen) == LET r == load_fen(game, fen) IN GameCall("load_fen", r.game, r.ok)

NextGame ==
    \/ \E m \in GameMoves : GameMakeMove(m)
    \/ GameBack
    \/ GameForward
    \/ GameToStart
    \/ GameToEnd
    \/ GameReset
    \/ \E fen \in {OtherFen, BadFen} : GameLoadFen(fen)

SpecGame == InitGame /\ [][NextGame]_vars

\* C40: after any sequence of make_move, go_back, go_forward, go_to_start,
\* go_to_end, reset and load_fen, current_index is between 0 and the number
\* of moves and the current position is the initial position with the
\* first current_index moves played; go_back at index 0 and go_forward at
\* the end return false and change nothing; a move made while not at the
\* end discards the moves after current_index.
C40_GameInvariant ==
    /\ [](/\ game.current_index \in 0..Len(game.moves)
          /\ game.position = game.initial \o SubSeq(game.moves, 1, game.current_index))
    /\ [][ /\ (GameBack /\ game.current_index = 0) =>
                 (~host_op'.ok /\ game' = game)
           /\ (GameForward /\ game.current_index = Len(game.moves)) =>
                 (~host_op'.ok /\ game' = game)
           /\ \A m \in GameMoves :
                 (GameMakeMove(m) /\ game.current_index < Len(game.moves)) =>
                    game'.moves = SubSeq(game.moves, 1, game.current_index)
                                     \o (IF host_op'.ok THEN <<m>> ELSE <<>>)]_vars

\* on a loaded position, a move made one step into a line of three moves
C40_Witness ==
    /\ host_op.op = "make_move"
    /\ host_op.ok
    /\ host_op.before.initial = OtherFen
    /\ host_op.before.moves = <<LegalSan, LegalSan, OtherSan>>
    /\ host_op.before.current_index = 1
    /\ game.moves = <<LegalSan, OtherSan>>
    /\ game.current_index = 2
    /\ game.position = OtherFen \o <<LegalSan, OtherSan>>

(***************************************************************************)
(* SpecPosition: set_position on a constructed client, with and without a   *)
(* FEN and with move lists of up to MaxMoves moves, between go_depth and    *)
(* stop calls, against a subprocess that may exit.                          *)
(***************************************************************************)
Fens == {None, Some(StartFen), Some(OtherFen)}

\* the move lists: the first n moves of a line, for every n up to MaxMoves
MainLine == <<"e2e4", "e7e5", "g1f3", "b8c6">>

MoveLists == {SubSeq(MainLine, 1, n) : n \in 0..MaxMoves}

\* a set_position call; host_op keeps its arguments
SetPositionStep(fen, moves) ==
    /\ pc = "ready"
    /\ Len(written) < 1 + MaxWrittenPos
    /\ Commit(set_position(EngineValue(-1), fen, moves), "set_position")
    /\ host_op' = [op |-> "set_position", ok |-> TRUE, fen |-> fen, moves |-> moves]
    /\ UNCHANGED <<clientFrame, received, last_op>>
    /\ UNCHANGED <<attached, analysis, game, last_fen, depth>>
    /\ UNCHANGED uciVars

NextPosition ==
    \/ \E fen \in Fens, moves \in MoveLists : SetPositionStep(fen, moves)
    \/ CallGoDepth(1 + MaxWrittenPos, DefaultDepth)
    \/ CallStop(1 + MaxWrittenPos)
    \/ ProcExit

SpecPosition == InitClient /\ [][NextPosition]_vars

\* the words of a command line
Words(cmd) ==
    CASE cmd.c = "position" -> <<"position">> \o cmd.pos \o cmd.tail
      [] OTHER              -> <<cmd.c>>

\* the words of the position line the specification gives for a FEN (or
\* none) and a move list
PositionWords(fen, moves) ==
    (IF fen = None THEN <<"position", "startpos">> ELSE <<"position", "fen", fen[1]>>)
    \o (IF Len(moves) > 0
        THEN <<"moves">> \o [i \in 1..Len(moves) |-> moves[i]]
        ELSE <<>>)

\* C26: a set_position call writes one command line, `position startpos`
\* without a FEN and `position fen <FEN>` with one, followed by `moves` and
\* the moves in their order when and only when the list is not empty, and
\* leaves the analyzing flag as it was; a call whose write fails writes
\* nothing.
C26_PositionLine ==
    [][(host_op'.op = "set_position"
            /\ SetPositionStep(host_op'.fen, host_op'.moves)) =>
          /\ is_analyzing' = is_analyzing
          /\ IF ret'.ok
             THEN /\ Len(written') = Len(written) + 1
                  /\ SubSeq(written', 1, Len(written)) = written
                  /\ Words(Last(written')) = PositionWords(host_op'.fen, host_op'.moves)
             ELSE written' = written]_vars

\* while analyzing, a position without a FEN and with two moves
C26_Witness ==
    /\ ret = [op |-> "set_position", ok |-> TRUE, ev |-> None]
    /\ is_analyzing
    /\ Len(written) = 3
    /\ written[2] = GoDepthCmd(DefaultDepth)
    /\ Words(written[3]) = <<"position", "startpos", "moves", "e2e4", "e7e5">>

(***************************************************************************)
(* The session controller (app.rs).  An App value: the Engine value it      *)
(* owns when one is attached, the aggregator, the game, the configured      *)
(* depth, last_fen, and whether the operation returned Ok.                  *)
(***************************************************************************)
AppValue(die_in) ==
    [engine |-> EngineValue(die_in), attached |-> attached, analysis |-> analysis,
     game |-> game, last_fen |-> last_fen, depth |-> depth, ok |-> TRUE]

\* a start_analysis that keeps the aggregator's content
start_analysis_no_clear(a) ==
    IF ~a.attached THEN [a EXCEPT !.ok = TRUE]
    ELSE LET e1 == stop(a.engine)
         IN  IF ~e1.ok THEN [a EXCEPT !.engine = e1, !.ok = FALSE]
             ELSE LET an  == [a.analysis EXCEPT !.is_running = TRUE,
                                                !.is_paused = FALSE]
                      fen == to_fen(a.game)
                      e2  == set_position(e1, Some(fen), <<>>)
                  IN  IF ~e2.ok
                      THEN [a EXCEPT !.engine = e2, !.analysis = an, !.ok = FALSE]
                      ELSE LET e3 == go_depth(e2, a.depth)
                           IN  [a EXCEPT !.engine = e3, !.analysis = an,
                                         !.last_fen = fen, !.ok = e3.ok]

\* a start_analysis that marks the session running without an engine too
start_analysis_marks_running(a) ==
    IF ~a.attached
    THEN [a EXCEPT !.analysis.is_running = TRUE, !.analysis.is_paused = FALSE,
                   !.ok = TRUE]
    ELSE LET e1 == stop(a.engine)
         IN  IF ~e1.ok THEN [a EXCEPT !.engine = e1, !.ok = FALSE]
             ELSE LET an  == [clear(a.analysis) EXCEPT !.is_running = TRUE,
                                                       !.is_paused = FALSE]
                      fen == to_fen(a.game)
                      e2  == set_position(e1, Some(fen), <<>>)
                  IN  IF ~e2.ok
                      THEN [a EXCEPT !.engine = e2, !.analysis = an, !.ok = FALSE]
                      ELSE LET e3 == go_depth(e2, a.depth)
                           IN  [a EXCEPT !.engine = e3, !.analysis = an,
                                         !.last_fen = fen, !.ok = e3.ok]

\* a start_analysis that starts the search before it sends the position
start_analysis_go_first(a) ==
    IF ~a.attached THEN [a EXCEPT !.ok = TRUE]
    ELSE LET e1 == stop(a.engine)
         IN  IF ~e1.ok THEN [a EXCEPT !.engine = e1, !.ok = FALSE]
             ELSE LET an  == [clear(a.analysis) EXCEPT !.is_running = TRUE,
                                                       !.is_paused = FALSE]
                      fen == to_fen(a.game)
                      e2  == go_depth(e1, a.depth)
                  IN  IF ~e2.ok
                      THEN [a EXCEPT !.engine = e2, !.analysis = an, !.ok = FALSE]
                      ELSE LET e3 == set_position(e2, Some(fen), <<>>)
                           IN  [a EXCEPT !.engine = e3, !.analysis = an,
                                         !.last_fen = fen, !.ok = e3.ok]

\* a start_analysis that leaves is_paused as it was
start_analysis_keeps_paused(a) ==
    IF ~a.attached THEN [a EXCEPT !.ok = TRUE]
    ELSE LET e1 == stop(a.engine)
         IN  IF ~e1.ok THEN [a EXCEPT !.engine = e1, !.ok = FALSE]
             ELSE LET an  == [clear(a.analysis) EXCEPT !.is_running = TRUE]
                      fen == to_fen(a.game)
                      e2  == set_position(e1, Some(fen), <<>>)
                  IN  IF ~e2.ok
                      THEN [a EXCEPT !.engine = e2, !.analysis = an, !.ok = FALSE]
                      ELSE LET e3 == go_depth(e2, a.depth)
                           IN  [a EXCEPT !.engine = e3, !.analysis = an,
                                         !.last_fen = fen, !.ok = e3.ok]

\* a start_analysis that goes on to go_depth after a failed position write
start_analysis_goes_on(a) ==
    IF ~a.attached THEN [a EXCEPT !.ok = TRUE]
    ELSE LET e1 == stop(a.engine)
         IN  IF ~e1.ok THEN [a EXCEPT !.engine = e1, !.ok = FALSE]
             ELSE LET an  == [clear(a.analysis) EXCEPT !.is_running = TRUE,
                                                       !.is_paused = FALSE]
                      fen == to_fen(a.game)
                      e2  == set_position(e1, Some(fen), <<>>)
                      e3  == go_depth(e2, a.depth)
                  IN  [a EXCEPT !.engine = e3, !.analysis = an,
                                !.last_fen = IF e2.ok THEN fen ELSE @,
                                !.ok = e2.ok /\ e3.ok]

\* App::start_analysis
start_analysis(a) ==
    IF ~a.attached THEN [a EXCEPT !.ok = TRUE]
    ELSE LET e1 == stop(a.engine)
         IN  IF ~e1.ok THEN [a EXCEPT !.engine = e1, !.ok = FALSE]
             ELSE LET an  == [clear(a.analysis) EXCEPT !.is_running = TRUE,
                                                       !.is_paused = FALSE]
                      fen == to_fen(a.game)
                      e2  == set_position(e1, Some(fen), <<>>)
                  IN  IF ~e2.ok
                      THEN [a EXCEPT !.engine = e2, !.analysis = an, !.ok = FALSE]
                      ELSE LET e3 == go_depth(e2, a.depth)
                           IN  [a EXCEPT !.engine = e3, !.analysis = an,
                                         !.last_fen = fen, !.ok = e3.ok]

\* a stop_analysis that leaves is_running as it was
stop_analysis_keeps_running(a) ==
    IF ~a.attached THEN [a EXCEPT !.ok = TRUE]
    ELSE LET e1 == stop(a.engine)
         IN  IF ~e1.ok THEN [a EXCEPT !.engine = e1, !.ok = FALSE]
             ELSE [a EXCEPT !.engine = e1, !.ok = TRUE]

\* App::stop_analysis
stop_analysis(a) ==
    IF ~a.attached THEN [a EXCEPT !.ok = TRUE]
    ELSE LET e1 == stop(a.engine)
         IN  IF ~e1.ok THEN [a EXCEPT !.engine = e1, !.ok = FALSE]
             ELSE [a EXCEPT !.engine = e1, !.analysis.is_running = FALSE, !.ok = TRUE]

\* App::toggle_pause
toggle_pause(a) ==
    IF a.analysis.is_paused THEN start_analysis(a)
    ELSE LET s == stop_analysis(a)
         IN  IF ~s.ok THEN s ELSE [s EXCEPT !.analysis.is_paused = TRUE]

\* a process_engine_events that takes one event per call
process_engine_events_once(a) ==
    IF ~a.attached THEN a
    ELSE LET e1 == try_recv(a.engine)
         IN  IF ~IsSome(e1.ev) THEN [a EXCEPT !.engine = e1]
             ELSE LET ev == e1.ev[1]
                      an == CASE ev.e = "Info" -> update(a.analysis, ev.info)
                              [] ev.e = "BestMove" ->
                                    [a.analysis EXCEPT !.is_running = FALSE]
                              [] OTHER -> a.analysis
                  IN  [a EXCEPT !.engine = e1, !.analysis = an]

\* App::process_engine_events: try_recv until it returns None
RECURSIVE process_engine_events(_)
process_engine_events(a) ==
    IF ~a.attached THEN a
    ELSE LET e1 == try_recv(a.engine)
         IN  IF ~IsSome(e1.ev) THEN [a EXCEPT !.engine = e1]
             ELSE LET ev == e1.ev[1]
                      an == CASE ev.e = "Info" -> update(a.analysis, ev.info)
                              [] ev.e = "BestMove" ->
                                    [a.analysis EXCEPT !.is_running = FALSE]
                              [] OTHER -> a.analysis
                  IN  process_engine_events([a EXCEPT !.engine = e1, !.analysis = an])

\* handle_key_event, Left or 'h'
on_back(a) ==
    LET r == go_back(a.game)
    IN  IF r.moved THEN start_analysis([a EXCEPT !.game = r.game]) ELSE a

\* handle_key_event, Right or 'l'
on_forward(a) ==
    LET r == go_forward(a.game)
    IN  IF r.moved THEN start_analysis([a EXCEPT !.game = r.game]) ELSE a

\* handle_key_event, Home
on_home(a) == start_analysis([a EXCEPT !.game = go_to_start(@)])

\* handle_key_event, End
on_end(a) == start_analysis([a EXCEPT !.game = go_to_end(@)])

\* handle_key_event, 'n' in the import popup
on_new_game(a) == start_analysis([a EXCEPT !.game = reset(@)])

\* handle_input_submit in FEN mode, or of a `:fen` command, with a text
\* that is not empty
submit_fen(a, fen) ==
    LET r == load_fen(a.game, fen)
    IN  IF r.ok THEN start_analysis([a EXCEPT !.game = r.game]) ELSE a

\* the loop of parse_pgn over the tokens of the text: a move number is
\* skipped, a move is played, the first move the game rejects ends the loop
\* with its error
RECURSIVE PlayTokens(_, _)
PlayTokens(g, tokens) ==
    IF tokens = <<>> THEN [game |-> g, ok |-> TRUE]
    ELSE IF Head(tokens) = MoveNumber THEN PlayTokens(g, Tail(tokens))
    ELSE LET r == make_move_san(g, Head(tokens))
         IN  IF r.ok THEN PlayTokens(r.game, Tail(tokens))
             ELSE [game |-> r.game, ok |-> FALSE]

\* App::parse_pgn
parse_pgn(g, pgn) == PlayTokens(reset(g), pgn)

\* App::finish_pgn_input
finish_pgn_input(a, pgn) ==
    IF pgn = <<>> THEN a
    ELSE LET r == parse_pgn(a.game, pgn)
         IN  IF r.ok THEN start_analysis([a EXCEPT !.game = r.game])
             ELSE [a EXCEPT !.game = r.game]

\* the SAN text of a move given in UCI notation
ToSan(uci_move) == IF uci_move = "e2e4" THEN LegalSan ELSE IllegalSan

\* App::play_analysis_line; legal: whether the first move of the line is a
\* move of the game's current position
play_analysis_line(a, line_idx, legal) ==
    IF line_idx < Len(a.analysis.lines)
          /\ a.analysis.lines[line_idx + 1].pv # <<>>
          /\ legal
    THEN LET r == make_move_san(a.game, ToSan(Head(a.analysis.lines[line_idx + 1].pv)))
         IN  IF r.ok THEN start_analysis([a EXCEPT !.game = r.game]) ELSE a
    ELSE a


(***************************************************************************)
(* The subprocess, for Spec: a UCI engine.  It reads the commands written   *)
(* to it in order; a go starts a search (it is read once the search before  *)
(* it has ended), a stop ends the running search with a bestmove, a quit    *)
(* ends the process.  While searching it may write info lines, and it ends  *)
(* the search by itself with a bestmove.  MaxOut bounds what it writes      *)
(* after the handshake.                                                     *)
(***************************************************************************)
CanEmit == Len(emitted) < 1 + MaxOut

Emit(line) ==
    /\ stdout' = Append(stdout, line)
    /\ emitted' = Append(emitted, line)

uciFrame == <<pc, new_result, kind, waited, written, reader, queue, is_analyzing,
              name, author, clock, ret, received, last_op, write_failed>>

\* the next command that makes the engine do something: the commands before
\* it (setoption, position, uci) are read along with it
NextEffective(from) ==
    LET at == {i \in from..Len(written) : IsGo(written[i]) \/ written[i].c \in {"stop", "quit"}}
    IN  IF at = {} THEN 0 ELSE CHOOSE i \in at : \A j \in at : i <= j

uci_reads ==
    /\ proc = "running"
    /\ NextEffective(consumed + 1) # 0
    /\ LET at  == NextEffective(consumed + 1)
           cmd == written[at]
       IN  /\ consumed' = at
           /\ CASE IsGo(cmd) ->
                     /\ search = 0
                     /\ search' = at
                     /\ UNCHANGED <<proc, finished, stdout, emitted>>
                [] cmd = StopCmd /\ search # 0 ->
                     /\ CanEmit
                     /\ Emit(BestMoveLine)
                     /\ finished' = finished \cup {search}
                     /\ search' = 0
                     /\ UNCHANGED proc
                [] cmd = StopCmd /\ search = 0 ->
                     UNCHANGED <<proc, search, finished, stdout, emitted>>
                [] cmd = QuitCmd ->
                     /\ proc' = "exited"
                     /\ search' = 0
                     /\ UNCHANGED <<finished, stdout, emitted>>
    /\ UNCHANGED uciFrame
    /\ UNCHANGED hostVars

uci_info ==
    /\ proc = "running"
    /\ search # 0
    /\ CanEmit
    /\ \E line \in {InfoPvLine, InfoStatLine} : Emit(line)
    /\ UNCHANGED <<proc, consumed, search, finished>>
    /\ UNCHANGED uciFrame
    /\ UNCHANGED hostVars

uci_bestmove ==
    /\ proc = "running"
    /\ search # 0
    /\ CanEmit
    /\ Emit(BestMoveLine)
    /\ finished' = finished \cup {search}
    /\ search' = 0
    /\ UNCHANGED <<proc, consumed>>
    /\ UNCHANGED uciFrame
    /\ UNCHANGED hostVars

(***************************************************************************)
(* The host's main loop (main.rs: run_app): tick, then a key event.  A      *)
(* handler that returns an error ends the loop; the App and its Engine are  *)
(* dropped.                                                                 *)
(***************************************************************************)
NumGo(w) == Cardinality({i \in 1..Len(w) : IsGo(w[i])})

CanRestart == NumGo(written) < 1 + MaxRestarts

\* after how many writes of a handler the subprocess may close its stdin
DeathPoints == IF proc = "running" THEN {-1, 1, 2} ELSE {-1}

CommitApp(a, op) ==
    /\ Commit(a.engine, op)
    /\ received' = received \o SubSeq(queue, 1, Len(queue) - Len(a.engine.queue))
    /\ attached' = a.attached
    /\ analysis' = a.analysis
    /\ game' = a.game
    /\ last_fen' = a.last_fen
    /\ depth' = a.depth
    /\ pc' = IF a.ok THEN "host" ELSE "closed"
    /\ host_op' = [op |-> op, ok |-> a.ok]
    /\ search' = IF a.engine.alive \/ proc # "running" THEN search ELSE 0
    /\ UNCHANGED <<new_result, kind, waited, stdout, reader, clock, emitted, last_op,
                   consumed, finished>>

\* run_app: app.tick()
tick ==
    /\ pc = "host"
    /\ CommitApp(process_engine_events(AppValue(-1)), "tick")

\* handle_key_event, 'p'
key_pause ==
    /\ pc = "host"
    /\ CanRestart
    /\ \E d \in DeathPoints : CommitApp(toggle_pause(AppValue(d)), "toggle_pause")

\* handle_key_event, a move typed in and accepted by the game
key_move ==
    /\ pc = "host"
    /\ CanRestart
    /\ Len(game.moves) < 1 + MaxRestarts
    /\ \E d \in DeathPoints :
          CommitApp(start_analysis([AppValue(d) EXCEPT !.game = make_move_san(@, LegalSan).game]),
                    "move")

\* handle_key_event, the keys that walk the move list
key_navigate ==
    /\ pc = "host"
    /\ CanRestart
    /\ \E d \in DeathPoints :
          \/ CommitApp(on_back(AppValue(d)), "back")
          \/ CommitApp(on_forward(AppValue(d)), "forward")
          \/ CommitApp(on_home(AppValue(d)), "home")
          \/ CommitApp(on_end(AppValue(d)), "end")

\* handle_key_event, 'n' in the import popup
key_new_game ==
    /\ pc = "host"
    /\ CanRestart
    /\ \E d \in DeathPoints : CommitApp(on_new_game(AppValue(d)), "new_game")

\* handle_key_event, Enter on a FEN text
key_fen ==
    /\ pc = "host"
    /\ CanRestart
    /\ \E d \in DeathPoints, fen \in {OtherFen, BadFen} :
          CommitApp(submit_fen(AppValue(d), fen), "fen")

\* the PGN texts of the model, as their tokens
PgnTexts ==
    {<<>>, <<MoveNumber, LegalSan>>, <<MoveNumber, LegalSan, IllegalSan>>,
     <<IllegalSan>>}

\* handle_key_event, Enter on an empty line in PGN mode
key_pgn ==
    /\ pc = "host"
    /\ CanRestart
    /\ \E d \in DeathPoints, pgn \in PgnTexts :
          CommitApp(finish_pgn_input(AppValue(d), pgn), "pgn")

\* handle_key_event, '1' to '9'
key_line ==
    /\ pc = "host"
    /\ CanRestart
    /\ Len(game.moves) < 1 + MaxRestarts
    /\ \E d \in DeathPoints, line_idx \in 0..1, legal \in BOOLEAN :
          CommitApp(play_analysis_line(AppValue(d), line_idx, legal), "line")

(***************************************************************************)
(* Spec starts where App::new has returned: without an engine, or with an   *)
(* engine whose handshake succeeded (the subprocess read uci and wrote      *)
(* uciok), configured by four set_option calls and sent its first           *)
(* start_analysis.                                                          *)
(***************************************************************************)
FreshEngine ==
    [is_analyzing |-> FALSE, name |-> None, author |-> None, written |-> <<UciCmd>>,
     alive |-> TRUE, die_in |-> -1, queue |-> <<>>, ok |-> TRUE, ev |-> None]

ConfiguredEngine ==
    set_option(set_option(set_option(set_option(FreshEngine,
        "MultiPV", 3), "Threads", 4), "Hash", 256), "Contempt", 0)

NewApp(with_engine) ==
    start_analysis([engine |-> IF with_engine THEN ConfiguredEngine ELSE FreshEngine,
                    attached |-> with_engine,
                    analysis |-> NewAnalysis(DefaultDepth),
                    game |-> NewGame, last_fen |-> to_fen(NewGame),
                    depth |-> DefaultDepth, ok |-> TRUE])

Init ==
    \E with_engine \in BOOLEAN :
       LET a == NewApp(with_engine)
       IN  /\ pc = "host"
           /\ attached = with_engine
           /\ new_result = IF with_engine THEN "Ok" ELSE "LaunchError"
           /\ kind = IF with_engine THEN "uci" ELSE "missing"
           /\ proc = IF with_engine THEN "running" ELSE "none"
           /\ reader = IF with_engine THEN "running" ELSE "none"
           /\ written = IF with_engine THEN a.engine.written ELSE <<>>
           /\ consumed = IF with_engine THEN 1 ELSE 0
           /\ emitted = IF with_engine THEN <<UciOkLine>> ELSE <<>>
           /\ received = IF with_engine THEN <<[e |-> "Ready"]>> ELSE <<>>
           /\ is_analyzing = a.engine.is_analyzing
           /\ name = None
           /\ author = None
           /\ analysis = a.analysis
           /\ game = a.game
           /\ last_fen = a.last_fen
           /\ depth = a.depth
           /\ waited = FALSE
           /\ search = 0
           /\ finished = {}
           /\ stdout = <<>>
           /\ queue = <<>>
           /\ clock = 0
           /\ ret = NoRet
           /\ last_op = "none"
           /\ write_failed = FALSE
           /\ host_op = [op |-> "new", ok |-> TRUE]

Next ==
    \/ tick
    \/ key_pause
    \/ key_move
    \/ uci_reads
    \/ uci_info
    \/ uci_bestmove
    \/ ProcExit
    \/ read_output

Spec == Init /\ [][Next]_vars

(***************************************************************************)
(* SpecKeys: run_app with every key that changes the position, against a    *)
(* UCI engine that reads its commands and writes info lines.                *)
(***************************************************************************)
NextKeys ==
    \/ tick
    \/ key_move
    \/ key_navigate
    \/ key_new_game
    \/ key_fen
    \/ key_pgn
    \/ key_line
    \/ uci_reads
    \/ uci_info
    \/ read_output

SpecKeys == Init /\ [][NextKeys]_vars

(***************************************************************************)
(* Properties of SpecKeys.                                                  *)
(***************************************************************************)

\* C15: with an engine attached and no write failed, after every key event
\* the host has handled, the position last sent to the engine is the game's
\* current position.
C15_LastFenIsCurrent ==
    (attached /\ ~write_failed) => last_fen = to_fen(game)

(***************************************************************************)
(* Properties of Spec.                                                      *)
(***************************************************************************)

\* C16: a toggle_pause that returns Ok alternates the session, with or
\* without an engine: from not paused it leaves is_paused true, is_running
\* false and the client not analyzing; from paused it leaves is_paused false.
C16_TogglePauseAlternates ==
    [][(key_pause /\ host_op'.ok) =>
          IF analysis.is_paused
          THEN ~analysis'.is_paused
          ELSE analysis'.is_paused /\ ~analysis'.is_running /\ ~is_analyzing']_vars

\* C17: without an engine start_analysis returns Ok and changes nothing: no
\* command is written, and the line array, the stats, is_running, is_paused,
\* the target depth and last_fen stay as they were; so a move typed in
\* changes the game only.
C17_NoEngineNoOp ==
    /\ [](~attached =>
             /\ start_analysis(AppValue(-1)) = AppValue(-1)
             /\ written = <<>>)
    /\ [][(~attached /\ key_move) =>
             /\ host_op'.ok
             /\ UNCHANGED <<written, analysis, last_fen, depth, is_analyzing>>]_vars

\* a move typed in without an engine
C17_Witness ==
    /\ ~attached
    /\ host_op = [op |-> "move", ok |-> TRUE]
    /\ game.current_index = 2
    /\ last_fen = StartFen
    /\ written = <<>>
    /\ analysis = NewAnalysis(DefaultDepth)

\* what one start_analysis call writes from the current state, for the game g
StartWrites(g) ==
    (IF is_analyzing THEN <<StopCmd>> ELSE <<>>)
    \o <<PositionCmd(Some(to_fen(g)), <<>>), GoDepthCmd(depth)>>

\* C18: with an engine attached, a start_analysis call none of whose writes
\* fails writes stop (only if the client was analyzing), then the position
\* command of the game's current position, then go depth with the configured
\* depth, and leaves is_running true, is_paused false, the client analyzing.
C18_StartWritesInOrder ==
    [][(attached /\ host_op'.ok /\ (key_move \/ (key_pause /\ analysis.is_paused))) =>
          /\ written' = written \o StartWrites(game')
          /\ analysis'.is_running
          /\ ~analysis'.is_paused
          /\ is_analyzing']_vars

\* a restart while analyzing, then a resume from pause (no stop written)
C18_Witness ==
    /\ attached
    /\ host_op = [op |-> "toggle_pause", ok |-> TRUE]
    /\ analysis.is_running
    /\ is_analyzing
    /\ NumGo(written) = 3
    /\ written[Len(written) - 2] = StopCmd
    /\ written[Len(written) - 1].c = "position"
    /\ Last(written) = GoDepthCmd(depth)
    /\ game.current_index = 1

\* the aggregator after the events evs, applied oldest first
RECURSIVE ApplyEvents(_, _)
ApplyEvents(an, evs) ==
    IF evs = <<>> THEN an
    ELSE ApplyEvents(CASE Head(evs).e = "Info" -> update(an, Head(evs).info)
                       [] Head(evs).e = "BestMove" -> [an EXCEPT !.is_running = FALSE]
                       [] OTHER -> an,
                     Tail(evs))

HasBestMove(evs) == \E i \in 1..Len(evs) : evs[i].e = "BestMove"

\* events of the kinds process_engine_events has no arm for
OtherEvents ==
    <<[e |-> "Ready"], [e |-> "Id", name |-> Some("X"), author |-> None],
      [e |-> "Option", name |-> "Hash"]>>

\* a step of the host's tick with an engine attached: the subprocess and
\* the reader thread have not moved
TickStep ==
    /\ attached
    /\ pc = "host"
    /\ host_op'.op = "tick"
    /\ UNCHANGED <<stdout, consumed, proc, reader>>

\* C31: with an engine attached a tick takes every queued event, oldest
\* first, and ends with the queue empty: the Info events are applied to the
\* aggregator in their order, a BestMove leaves is_running false and the
\* client not analyzing, and nothing else changes; events of other kinds
\* among them change nothing.
C31_DrainFifo ==
    /\ [][TickStep =>
             /\ queue' = <<>>
             /\ received' = received \o queue
             /\ analysis' = ApplyEvents(analysis, queue)
             /\ is_analyzing' = (is_analyzing /\ ~HasBestMove(queue))
             /\ host_op'.ok
             /\ UNCHANGED <<written, game, last_fen, depth, attached>>]_vars
    /\ [](attached =>
             LET plain == process_engine_events(AppValue(-1))
                 mixed == process_engine_events(
                              [AppValue(-1) EXCEPT !.engine.queue =
                                  <<OtherEvents[1]>> \o @ \o Tail(OtherEvents)])
             IN  /\ mixed.engine.queue = <<>>
                 /\ mixed.analysis = plain.analysis
                 /\ mixed.engine.is_analyzing = plain.engine.is_analyzing
                 /\ mixed.engine.written = written)

\* one tick that took an info line with a pv and then the bestmove
C31_Witness ==
    /\ attached
    /\ host_op = [op |-> "tick", ok |-> TRUE]
    /\ queue = <<>>
    /\ Len(received) = 3
    /\ received[2].e = "Info" /\ received[2].info.pv # <<>>
    /\ received[3].e = "BestMove"
    /\ analysis.lines # <<>>
    /\ ~analysis.is_running
    /\ ~is_analyzing
    /\ emitted = <<UciOkLine, InfoPvLine, BestMoveLine>>

\* the search that wrote the k-th line of the subprocess, counted in go
\* commands: every search ends with its bestmove line
SearchOf(k) == 1 + Cardinality({j \in 1..(k - 1) : emitted[j] = BestMoveLine})

\* C32: an Info event a tick applies to the aggregator was written by the
\* search of the go command written last: no line of a search started
\* before the latest start_analysis reaches the aggregator.
C32_NoStaleLines ==
    [][TickStep =>
          \A k \in (Len(received) + 1)..(Len(received) + Len(queue)) :
              (received \o queue)[k].e = "Info" => SearchOf(k) = NumGo(written)]_vars

\* the index of the go command written last (0: none)
LastGo ==
    LET at == {i \in 1..Len(written) : IsGo(written[i])}
    IN  IF at = {} THEN 0 ELSE CHOOSE i \in at : \A j \in at : j <= i

\* C33: while the subprocess runs the search of the go command written last
\* (no stop written after it, its bestmove not written yet), the client is
\* analyzing and the session is_running, whatever has been dequeued.
C33_FlagsWhileSearching ==
    (/\ pc = "host"
     /\ attached
     /\ proc = "running"
     /\ search # 0
     /\ search = LastGo
     /\ search \notin finished
     /\ ~\E j \in (LastGo + 1)..Len(written) : written[j] = StopCmd)
    => (is_analyzing /\ analysis.is_running)

\* C34: with an engine attached and no write failed, after every host
\* operation that has returned (start_analysis, stop_analysis, toggle_pause,
\* process_engine_events) the session's is_running equals the client's
\* analyzing flag.
C34_RunningEqualsAnalyzing ==
    (attached /\ pc = "host" /\ ~write_failed) => (analysis.is_running = is_analyzing)

\* a pause after a restart: both flags false, then a bestmove dequeued
C34_Witness ==
    /\ attached
    /\ pc = "host"
    /\ ~write_failed
    /\ host_op = [op |-> "tick", ok |-> TRUE]
    /\ analysis.is_paused
    /\ ~analysis.is_running
    /\ ~is_analyzing
    /\ NumGo(written) = 2
    /\ Last(written) = StopCmd
    /\ Last(received).e = "BestMove"

\* C35: is_running and is_paused are never both true, in any state: with or
\* without an engine, after any keys and engine events, and after an
\* operation that a failed write has aborted.
C35_NotRunningAndPaused ==
    ~(analysis.is_running /\ analysis.is_paused)

\* a resume from pause aborted by the failed write of its go command
C35_Witness ==
    /\ attached
    /\ host_op = [op |-> "toggle_pause", ok |-> FALSE]
    /\ write_failed
    /\ analysis.is_running
    /\ ~analysis.is_paused
    /\ NumGo(written) = 1
    /\ written[Len(written) - 1] = StopCmd
    /\ Last(written).c = "position"

\* a start_analysis call made with an engine attached that returned an error
\* (a move typed in, or a resume from pause)
StartAborted ==
    /\ attached
    /\ pc = "host"
    /\ pc' = "closed"
    /\ ~host_op'.ok
    /\ host_op'.op = "move" \/ (host_op'.op = "toggle_pause" /\ analysis.is_paused)

\* C36: a start_analysis aborts at its first failed write and writes nothing
\* after it.  When the stop write fails nothing is written and the
\* aggregator, last_fen and the analyzing flag are as before; when the
\* position write fails no go is written, the client is not analyzing and
\* last_fen is as before.
C36_AbortAtFirstFailure ==
    [][StartAborted =>
          /\ \E n \in 0..(Len(StartWrites(game')) - 1) :
                 written' = written \o SubSeq(StartWrites(game'), 1, n)
          /\ (is_analyzing /\ written' = written) =>
                 /\ UNCHANGED <<analysis, last_fen>>
                 /\ is_analyzing'
          /\ (written' = written \o (IF is_analyzing THEN <<StopCmd>> ELSE <<>>)) =>
                 /\ last_fen' = last_fen
                 /\ (~is_analyzing \/ written' # written) => ~is_analyzing']_vars

\* a move typed in after the engine has exited: the stop write failed, and
\* the lines of the search are still there
C36_Witness ==
    /\ attached
    /\ host_op = [op |-> "move", ok |-> FALSE]
    /\ proc = "exited"
    /\ IsGo(Last(written))
    /\ is_analyzing
    /\ analysis.is_running
    /\ analysis.lines # <<>>
    /\ game.current_index = 1
    /\ last_fen = StartFen

\* the go commands of w whose search may still run: the subprocess has not
\* written the bestmove of any in fin, and no stop was written after them
OpenGo(w, fin) ==
    {i \in 1..Len(w) :
        /\ IsGo(w[i])
        /\ i \notin fin
        /\ ~\E j \in (i + 1)..Len(w) : w[j] = StopCmd}

\* C1: whenever start_analysis writes its go depth command, every go written
\* before it has been followed by a written stop or by the subprocess' own
\* bestmove for it: no earlier search is still running.
C1_StopBeforeGo ==
    [][\A k \in (Len(written) + 1)..Len(written') :
          IsGo(written'[k]) => OpenGo(SubSeq(written', 1, k - 1), finished) = {}]_vars

\* C10: whenever the session controller writes a go command, the line array
\* is empty and nodes, nps and hashfull are unknown when it is written.
C10_ClearBeforeGo ==
    [][\A k \in (Len(written) + 1)..Len(written') :
          IsGo(written'[k]) =>
              /\ analysis'.lines = <<>>
              /\ analysis'.nodes = None
              /\ analysis'.nps = None
              /\ analysis'.hashfull = None]_vars

\* a go written by a restart after an info line with a pv had been applied
C10_Witness ==
    /\ host_op.op \in {"move", "toggle_pause"}
    /\ host_op.ok
    /\ NumGo(written) >= 2
    /\ IsGo(Last(written))
    /\ \E i \in 1..Len(received) :
          received[i].e = "Info" /\ received[i].info.pv # <<>>
    /\ analysis.lines = <<>>
    /\ analysis.nodes = None

(***************************************************************************)
(* SpecHost: the host from its start.  App::new calls Engine::new on an     *)
(* arbitrary executable (the steps of SpecNew), keeps the client when it    *)
(* gets one, and goes on without an engine when it gets an error; then      *)
(* run_app runs against whatever the subprocess does.                       *)
(***************************************************************************)

\* an App::new that returns the error of Engine::new
new_app_aborts(e, with_engine) ==
    IF with_engine
    THEN start_analysis([engine |-> set_option(set_option(set_option(set_option(e,
                                       "MultiPV", 3), "Threads", 4), "Hash", 256),
                                       "Contempt", 0),
                         attached |-> TRUE,
                         analysis |-> NewAnalysis(DefaultDepth),
                         game |-> NewGame, last_fen |-> to_fen(NewGame),
                         depth |-> DefaultDepth, ok |-> TRUE])
    ELSE [engine |-> e, attached |-> FALSE, analysis |-> NewAnalysis(DefaultDepth),
          game |-> NewGame, last_fen |-> to_fen(NewGame), depth |-> DefaultDepth,
          ok |-> FALSE]

\* App::new once Engine::new has returned: with a client e (with_engine), the
\* four set_option calls, whose results are ignored; without, no engine;
\* then start_analysis, whose error App::new returns
new_app(e, with_engine) ==
    start_analysis([engine |-> IF with_engine
                               THEN set_option(set_option(set_option(set_option(e,
                                        "MultiPV", 3), "Threads", 4), "Hash", 256),
                                        "Contempt", 0)
                               ELSE e,
                    attached |-> with_engine,
                    analysis |-> NewAnalysis(DefaultDepth),
                    game |-> NewGame, last_fen |-> to_fen(NewGame),
                    depth |-> DefaultDepth, ok |-> TRUE])

\* App::new, from the return of Engine::new to its own
app_new ==
    /\ pc \in {"ready", "failed"}
    /\ \E d \in DeathPoints : CommitApp(new_app(EngineValue(d), pc = "ready"), "new")

NextHost ==
    \/ new_start
    \/ wait_for_ready
    \/ process_wait
    \/ app_new
    \/ tick
    \/ key_pause
    \/ key_move
    \/ ProcEmit(LinesNew, MaxOutNew)
    \/ ProcExit
    \/ read_output

SpecHost == InitNew /\ [][NextHost]_vars

(***************************************************************************)
(* Properties of SpecHost.                                                  *)
(***************************************************************************)

\* Engine::new has returned an error
ConstructFailed == pc \in {"failed", "host"} /\ new_result \notin {"pending", "Ok"}

\* C24: when Engine::new has returned an error (the executable cannot be
\* started, no Ready within the bound) App::new returns an App without an
\* engine and the host runs on: Engine::new is not called again, no command
\* is written from then on, and start_analysis, stop_analysis, toggle_pause
\* and tick all return Ok.
C24_NoEngineMode ==
    /\ []((ConstructFailed /\ pc = "host") =>
             /\ ~attached
             /\ start_analysis(AppValue(-1)).ok
             /\ stop_analysis(AppValue(-1)).ok
             /\ toggle_pause(AppValue(-1)).ok)
    /\ [][ConstructFailed =>
             /\ pc' \in {pc, "host"}
             /\ UNCHANGED <<written, new_result, waited, attached>>
             /\ (app_new \/ tick \/ key_pause \/ key_move) => host_op'.ok]_vars

\* after a handshake that timed out: a move typed in, a pause, a tick
C24_Witness ==
    /\ pc = "host"
    /\ new_result = "HandshakeTimeout"
    /\ ~attached
    /\ written = <<UciCmd, QuitCmd>>
    /\ host_op = [op |-> "tick", ok |-> TRUE]
    /\ analysis.is_paused
    /\ game.current_index = 1

=============================================================================
